---- MODULE Spec2Model ----
(***************************************************************************)
(* Model of the search aggregation engine of CiefpOpenSubtitles            *)
(* (plugin.py): the Token-Auth adapter SubDLAPI (search, smart_search),    *)
(* the Key-Auth adapter (SubtitlesAPI.search_opensubtitles) and the        *)
(* aggregator SubtitlesAPI (search_all, search_all_smart).                 *)
(*                                                                         *)
(* Python strings that come from the user or from an upstream service are  *)
(* sequences of one-character strings, so that lower(), strip(), slicing   *)
(* and f-string concatenation are computed.  Python None is the value      *)
(* None below.  Literals of the code that form a closed set (site names,   *)
(* search_method tags, parameter names) are TLA+ strings.                  *)
(***************************************************************************)
EXTENDS Integers, Sequences, FiniteSets, TLC

\* edited: the files of the store were changed after a call of the running
\* aggregator returned, and nothing was done to the aggregator since;
\* last_languages: the attribute TitloviAPI.search leaves on the adapter
\* (line 573)
VARIABLES store, api, phase, call, arrival, agg, edited, last_languages

vars == <<store, api, phase, call, arrival, agg, edited, last_languages>>

---------------------------------------------------------------------------
(* Bounds of the model *)

\* longest subtitle list in one upstream response
MaxSubs == 2
\* longest record list handed to the aggregation steps in SpecAgg
MaxRecs == 3
\* a small result cap written to settings.json, so that truncation happens
SmallCap == 1
\* the longest list of languages a caller passes
MaxLangs == 2

(* Program constants *)

\* title prefix length of the deduplication keys
TitleCut == 50
\* release_info prefix length of the search_all deduplication key
ReleaseCut == 20
\* max_results when settings.json does not set it
DefaultMaxResults == 50
\* tt followed by 7 or 8 digits
ImdbMinDigits == 7
ImdbMaxDigits == 8
\* the bytes the format checks look at
SniffLen == 1000
\* is_subtitle_content wants this many bytes
MinSubtitleLen == 10
\* TitloviAPI takes a payload longer than this
MinPayloadLen == 100
\* extract_from_zip takes an entry longer than this
MinEntryLen == 10

---------------------------------------------------------------------------
(* Python values and string methods *)

None == <<"None">>

\* a key the dict does not hold (dict.get then gives its default)
Absent == <<"Absent">>

\* str(None), as an f-string renders it
NoneText == <<"N", "o", "n", "e">>

ToLower ==
    ("A" :> "a") @@ ("B" :> "b") @@ ("C" :> "c") @@ ("D" :> "d") @@
    ("E" :> "e") @@ ("F" :> "f") @@ ("G" :> "g") @@ ("H" :> "h") @@
    ("I" :> "i") @@ ("J" :> "j") @@ ("K" :> "k") @@ ("L" :> "l") @@
    ("M" :> "m") @@ ("N" :> "n") @@ ("O" :> "o") @@ ("P" :> "p") @@
    ("Q" :> "q") @@ ("R" :> "r") @@ ("S" :> "s") @@ ("T" :> "t") @@
    ("U" :> "u") @@ ("V" :> "v") @@ ("W" :> "w") @@ ("X" :> "x") @@
    ("Y" :> "y") @@ ("Z" :> "z")

LowerChar(c) == IF c \in DOMAIN ToLower THEN ToLower[c] ELSE c

\* str.lower()
Lower(s) == [i \in 1..Len(s) |-> LowerChar(s[i])]

\* s[:n]
Take(s, n) == IF Len(s) <= n THEN s ELSE SubSeq(s, 1, n)

IsSpace(c) == c \in {" ", "\t", "\n", "\r"}

\* str.strip()
Strip(s) ==
    LET keep == {i \in 1..Len(s) : ~IsSpace(s[i])}
    IN  IF keep = {} THEN <<>>
        ELSE SubSeq(s, CHOOSE i \in keep : \A j \in keep : i <= j,
                       CHOOSE i \in keep : \A j \in keep : j <= i)

IsDigit(c) == c \in {"0", "1", "2", "3", "4", "5", "6", "7", "8", "9"}

\* truthiness of a str-or-None value
Truthy(v) == v # None /\ v # <<>>

\* f"{v}" for a str-or-None value
Fmt(v) == IF v = None THEN NoneText ELSE v

\* a sequence with the elements failing Keep(_) removed, order kept
Filter(s, Keep(_)) ==
    LET idx == {i \in 1..Len(s) : Keep(s[i])}
        nth(k) == CHOOSE i \in idx : Cardinality({j \in idx : j < i}) = k - 1
    IN  [k \in 1..Cardinality(idx) |-> s[nth(k)]]

\* list.sort(key=...): the stable sort by a key with strict order Lt
StableSort(s, Lt(_, _)) ==
    LET n == Len(s)
        pos(i) == 1 + Cardinality({j \in 1..n : Lt(s[j], s[i])})
                    + Cardinality({j \in 1..(i - 1) :
                                     ~Lt(s[j], s[i]) /\ ~Lt(s[i], s[j])})
    IN  [p \in 1..n |-> s[CHOOSE i \in 1..n : pos(i) = p]]

---------------------------------------------------------------------------
(* SubDLAPI.extract_imdb_id *)

\* does tt + n digits start at position i of s (re.IGNORECASE)
ImdbAt(s, i, n) ==
    /\ i + 1 + n <= Len(s)
    /\ LowerChar(s[i]) = "t"
    /\ LowerChar(s[i + 1]) = "t"
    /\ \A k \in 2..(n + 1) : IsDigit(s[i + k])

\* the identifier as written in the query, not lower-cased
ExtractAsWritten(query) ==
    LET clean_query == Strip(query)
        starts == {i \in 1..Len(clean_query) : ImdbAt(clean_query, i, ImdbMinDigits)}
    IN  IF starts = {} THEN None
        ELSE LET i == CHOOSE a \in starts : \A b \in starts : a <= b
                 n == IF ImdbAt(clean_query, i, ImdbMaxDigits)
                      THEN ImdbMaxDigits ELSE ImdbMinDigits
             IN  SubSeq(clean_query, i, i + 1 + n)

\* re.search(r'(?:imdb[:=]?\s*)?(tt\d{7,8})', query.strip(), re.IGNORECASE):
\* group 1 of the leftmost match starts at the first tt + 7 digits (the
\* optional prefix holds no "t") and takes an eighth digit when there is one.
extract_imdb_id(query) ==
    LET clean_query == Strip(query)
        starts == {i \in 1..Len(clean_query) : ImdbAt(clean_query, i, ImdbMinDigits)}
    IN  IF starts = {} THEN None
        ELSE LET i == CHOOSE a \in starts : \A b \in starts : a <= b
                 n == IF ImdbAt(clean_query, i, ImdbMaxDigits)
                      THEN ImdbMaxDigits ELSE ImdbMinDigits
             IN  Lower(SubSeq(clean_query, i, i + 1 + n))

---------------------------------------------------------------------------
(* Result records: the dict fields the aggregation reads *)

NoMethod == "absent"

Result(site, title, language, release_info, file_id, downloads, rating) ==
    [site |-> site, title |-> title, language |-> language,
     release_info |-> release_info, file_id |-> file_id,
     downloads |-> downloads, rating |-> rating, search_method |-> NoMethod]

\* result['search_method'] = m for every result of a list
Tag(results, m) ==
    [i \in 1..Len(results) |-> [results[i] EXCEPT !.search_method = m]]

---------------------------------------------------------------------------
(* SubDLAPI.parse_api_response and SubDLAPI.search *)

\* One subtitle entry of a response, with file_id as lines 331-352 extract it
\* from the entry's url ("" when the entry has no url).
\* title = movie_info.get("name", original_query), then " - release"
SubDLTitle(name, original_query, release_name) ==
    LET title == IF name = Absent THEN original_query ELSE name
    IN  IF Truthy(release_name)
        THEN Fmt(title) \o <<" ", "-", " ">> \o release_name
        ELSE title

parse_api_response(name, subtitles_list, original_query) ==
    [i \in 1..Len(subtitles_list) |->
        LET sub == subtitles_list[i]
        IN  Result("subdl", SubDLTitle(name, original_query, sub.release),
                   sub.language_name, sub.release, sub.file_id,
                   sub.download_count, sub.rating)]

\* the primary query parameter, lines 249-254
SubDLParam(query, imdb_id, file_name) ==
    IF Truthy(imdb_id) THEN [param |-> "imdb_id", value |-> imdb_id]
    ELSE IF Truthy(file_name) THEN [param |-> "file_name", value |-> file_name]
    ELSE [param |-> "film_name", value |-> query]

\* results of a request whose upstream outcome is resp, lines 282-311:
\* an exception (timeout, network, bad JSON), a status other than 200 and a
\* falsy "status" in the body all give []
SubDLResults(resp, query) ==
    IF resp.kind = "ok"
    THEN parse_api_response(resp.name, resp.subs, query)
    ELSE <<>>

\* search() without its "except Exception": a failing request raises
SubDLSearchUncaught(api_key, query, imdb_id, file_name, resp) ==
    IF api_key = <<>>
    THEN [sent |-> FALSE, adapter |-> "subdl", param |-> "none",
          value |-> <<>>, outcome |-> "no_api_key", raised |-> FALSE,
          results |-> <<>>]
    ELSE LET p == SubDLParam(query, imdb_id, file_name)
         IN  [sent |-> TRUE, adapter |-> "subdl", param |-> p.param,
              value |-> p.value, outcome |-> resp.kind,
              raised |-> resp.kind = "exception",
              results |-> SubDLResults(resp, query)]

\* search(): the request it sends and the list it returns.  No request
\* without an API key (line 190); every failure of the request and of the
\* parsing is caught (lines 307-311), so nothing is raised.
SubDLSearch(api_key, query, imdb_id, file_name, resp) ==
    IF api_key = <<>>
    THEN [sent |-> FALSE, adapter |-> "subdl", param |-> "none",
          value |-> <<>>, outcome |-> "no_api_key", raised |-> FALSE,
          results |-> <<>>]
    ELSE LET p == SubDLParam(query, imdb_id, file_name)
         IN  [sent |-> TRUE, adapter |-> "subdl", param |-> p.param,
              value |-> p.value, outcome |-> resp.kind, raised |-> FALSE,
              results |-> SubDLResults(resp, query)]

---------------------------------------------------------------------------
(* SubDLAPI.smart_search *)

\* lines 143-159: one set seen_ids holds file ids and title_language keys
SmartSeenKey(r) ==
    IF Truthy(r.file_id) THEN r.file_id
    ELSE Fmt(r.title) \o <<"_">> \o Fmt(r.language)

\* the elements of a list that are the first with their key, order kept
FirstByKey(results, Key(_)) ==
    LET first(i) == \A j \in 1..(i - 1) : Key(results[j]) # Key(results[i])
        idx == {i \in 1..Len(results) : first(i)}
        nth(k) == CHOOSE i \in idx : Cardinality({j \in idx : j < i}) = k - 1
    IN  [k \in 1..Cardinality(idx) |-> results[nth(k)]]

SmartUnique(all_results) == FirstByKey(all_results, SmartSeenKey)

\* does the identifier tier run (line 95)
RunsImdbTier(imdb_id) == Truthy(imdb_id)

\* the filename tier without its "if not all_results"
RunsFileTierAlways(all_results) == TRUE

\* does the filename tier run (line 111): all_results is empty
RunsFileTier(all_results) == all_results = <<>>

\* the free-text tier without its "if not all_results"
RunsFilmTierAlways(all_results) == TRUE

\* does the free-text tier run (line 127): all_results is still empty
RunsFilmTier(all_results) == all_results = <<>>

\* one entry of the log of search() calls
TierCall(tier, s) == [tier |-> tier] @@ s

\* the progress of a smart search: the search() calls made, the results
\* gathered, and whether an exception left a search() call (which would end
\* smart_search there)
SmartStart == [calls |-> <<>>, all_results |-> <<>>, raised |-> FALSE]

\* a tier whose results all get the free-text tag
SmartTierOneTag(st, runs, tier, s) ==
    IF st.raised \/ ~runs THEN st
    ELSE [calls |-> Append(st.calls, TierCall(tier, s)),
          all_results |-> IF s.raised THEN st.all_results
                          ELSE st.all_results \o Tag(s.results, "film_name"),
          raised |-> s.raised]

\* one tier: when it runs, its search() call s is made and its results are
\* tagged with the tier and appended
SmartTier(st, runs, tier, s) ==
    IF st.raised \/ ~runs THEN st
    ELSE [calls |-> Append(st.calls, TierCall(tier, s)),
          all_results |-> IF s.raised THEN st.all_results
                          ELSE st.all_results \o Tag(s.results, tier),
          raised |-> s.raised]

\* lines 93-108, r1 the upstream outcome of the tier's request
SmartImdbTier(api_key, query, imdb_id, r1) ==
    SmartTier(SmartStart, RunsImdbTier(imdb_id), "imdb",
              SubDLSearch(api_key, <<>>, imdb_id, None, r1))

\* lines 110-124
SmartFileTier(api_key, query, st, r2) ==
    SmartTier(st, RunsFileTier(st.all_results), "file_name",
              SubDLSearch(api_key, <<>>, None, query, r2))

\* a free-text tier that first repeats the filename query
SmartFilmTierRequeries(api_key, query, st, r3) ==
    LET again == SmartTier(st, RunsFilmTier(st.all_results), "file_name",
                           SubDLSearch(api_key, <<>>, None, query, r3))
    IN  SmartTier(again, RunsFilmTier(again.all_results), "film_name",
                  SubDLSearch(api_key, query, None, None, r3))

\* lines 126-139
SmartFilmTier(api_key, query, st, r3) ==
    SmartTier(st, RunsFilmTier(st.all_results), "film_name",
              SubDLSearch(api_key, query, None, None, r3))

\* lines 141-159
SmartFinish(st) ==
    [calls |-> st.calls, raised |-> st.raised,
     results |-> IF st.raised THEN <<>> ELSE SmartUnique(st.all_results)]

smart_search(api_key, query, r1, r2, r3) ==
    SmartFinish(
        SmartFilmTier(api_key, query,
            SmartFileTier(api_key, query,
                SmartImdbTier(api_key, query, extract_imdb_id(query), r1),
                r2),
            r3))

---------------------------------------------------------------------------
(* SubtitlesAPI.search_opensubtitles *)

OSLangMap ==
    (<<"s", "r", "p">> :> <<"s", "r">>) @@ (<<"s", "c", "c">> :> <<"s", "r">>) @@
    (<<"h", "r", "v">> :> <<"h", "r">>) @@ (<<"b", "o", "s">> :> <<"b", "s">>) @@
    (<<"e", "n", "g">> :> <<"e", "n">>) @@ (<<"s", "l", "v">> :> <<"s", "l">>)

\* lines 1725-1741: the set of two-letter codes the request is made with
OSLanguages(languages) ==
    LET langs == IF languages = None \/ languages = <<>>
                 THEN << <<"s", "r">>, <<"h", "r">> >> ELSE languages
        conv(lang) == LET lang_lower == Strip(Lower(lang))
                      IN  IF lang_lower \in DOMAIN OSLangMap
                          THEN OSLangMap[lang_lower] ELSE Take(lang_lower, 2)
    IN  {c \in {conv(langs[i]) : i \in 1..Len(langs)} : Len(c) = 2}

\* lines 1778-1803: one record per item that lists a file
OSParse(data) ==
    LET withFiles == Filter(data, LAMBDA item : item.has_files)
    IN  [i \in 1..Len(withFiles) |->
            LET attr == withFiles[i]
                title == IF Truthy(attr.release_name) THEN attr.release_name
                         ELSE IF attr.movie_name = Absent
                              THEN <<"U", "n", "k", "n", "o", "w", "n">>
                              ELSE attr.movie_name
            IN  Result("opensubtitles", title, attr.language, attr.release,
                       attr.file_id, attr.download_count, attr.ratings)]

\* lines 1768-1809: a status other than 200, an exception of the request and
\* an exception while reading the items (a missing 'attributes' or 'file_id'
\* key) all give []
OSResults(resp) == IF resp.kind = "ok" THEN OSParse(resp.data) ELSE <<>>

search_opensubtitles(api_key, query, languages, resp) ==
    IF api_key = <<>>
    THEN [sent |-> FALSE, adapter |-> "opensubtitles", param |-> "none",
          value |-> <<>>, outcome |-> "no_api_key", raised |-> FALSE,
          results |-> <<>>, tier |-> "standard"]
    ELSE IF OSLanguages(languages) = {}
    THEN [sent |-> FALSE, adapter |-> "opensubtitles", param |-> "none",
          value |-> <<>>, outcome |-> "no_language", raised |-> FALSE,
          results |-> <<>>, tier |-> "standard"]
    ELSE [sent |-> TRUE, adapter |-> "opensubtitles", param |-> "query",
          value |-> query, outcome |-> resp.kind, raised |-> FALSE,
          results |-> OSResults(resp), tier |-> "standard"]

---------------------------------------------------------------------------
(* SubtitlesAPI.search_all: merge, deduplicate, rank, truncate *)

\* a and b truthy in Python: a setting flag and a non-empty key
UseService(flag, api_key) == flag /\ api_key # <<>>

\* key = f"{title}_{lang}_{release}_{site}" (lines 1641-1646).  Two such
\* strings are equal iff the sites are equal and the parts before the site
\* are equal: "subdl" and "opensubtitles" end in different letters.
AllKey(r) ==
    <<r.site,
      Take(Lower(r.title), TitleCut) \o <<"_">> \o Lower(r.language) \o <<"_">>
        \o Take(Lower(r.release_info), ReleaseCut)>>

\* .lower() of None raises AttributeError in the deduplication loop
AllKeyRaises(r) ==
    r.title = None \/ r.language = None \/ r.release_info = None

\* {'subdl': 0, 'opensubtitles': 1}.get(site, 2)
SitePriority(site) ==
    IF site = "subdl" THEN 0 ELSE IF site = "opensubtitles" THEN 1 ELSE 2

\* a sort key without its rating component
AllSortLtNoRating(a, b) ==
    \/ SitePriority(a.site) < SitePriority(b.site)
    \/ SitePriority(a.site) = SitePriority(b.site) /\ -a.downloads < -b.downloads

\* (site_priority, -downloads, -rating) compared as Python compares tuples
AllSortLt(a, b) ==
    \/ SitePriority(a.site) < SitePriority(b.site)
    \/ /\ SitePriority(a.site) = SitePriority(b.site)
       /\ \/ -a.downloads < -b.downloads
          \/ -a.downloads = -b.downloads /\ -a.rating < -b.rating

\* the elements of a list that are the last with their key, order kept
LastByKey(results, Key(_)) ==
    LET last(i) == \A j \in (i + 1)..Len(results) : Key(results[j]) # Key(results[i])
        idx == {i \in 1..Len(results) : last(i)}
        nth(k) == CHOOSE i \in idx : Cardinality({j \in idx : j < i}) = k - 1
    IN  [k \in 1..Cardinality(idx) |-> results[nth(k)]]

\* a deduplication in which a later duplicate replaces the record seen first
AllUniqueLastWins(all_results) == LastByKey(all_results, AllKey)

AllUnique(all_results) == FirstByKey(all_results, AllKey)

\* lines 1635-1666 on the merged list all_results
AggregateAll(all_results, max_results) ==
    IF \E i \in 1..Len(all_results) : AllKeyRaises(all_results[i])
    THEN [raised |-> TRUE, unique |-> <<>>, output |-> <<>>]
    ELSE LET unique_results == StableSort(AllUnique(all_results), AllSortLt)
         IN  [raised |-> FALSE, unique |-> unique_results,
              output |-> Take(unique_results, max_results)]

\* the progress of an aggregator call: the adapter calls made, the merged
\* list all_results, and whether an exception has ended the call
AdapterStart == [calls |-> <<>>, results |-> <<>>, raised |-> FALSE]

\* an adapter block of search_all: when it runs, the adapter's calls are
\* logged and its results appended
AdapterBlock(st, runs, calls, results, raised) ==
    IF st.raised \/ ~runs THEN st
    ELSE [calls |-> st.calls \o calls,
          results |-> IF raised THEN <<>> ELSE st.results \o results,
          raised |-> raised]

\* what the call leaves behind: its requests, the merged list, the ranked
\* unique list before truncation, and the returned list or the exception
CallRecord(op, query, languages, st, g) ==
    [op |-> op, query |-> query, languages |-> languages,
     calls |-> st.calls,
     all_results |-> st.results,
     raised |-> st.raised \/ g.raised,
     unique |-> IF st.raised THEN <<>> ELSE g.unique,
     output |-> IF st.raised THEN <<>> ELSE g.output]

\* if languages is None: languages = settings.get('languages', ...)
CallLanguages(settings, languages_arg) ==
    IF languages_arg = None THEN settings.languages ELSE languages_arg

\* SubDL queried whatever service is preferred
RunsSubDLAnyPreference(a, settings) ==
    UseService(settings.use_subdl, a.subdl_api_key)

\* does the SubDL block run (lines 1604, 1610)
RunsSubDL(a, settings) ==
    /\ UseService(settings.use_subdl, a.subdl_api_key)
    /\ settings.preferred_service \in {"both", "subdl"}

\* does the OpenSubtitles block run (lines 1603, 1627)
RunsOpenSubtitles(a, settings) ==
    /\ UseService(settings.use_opensubtitles, a.opensubtitles_api_key)
    /\ settings.preferred_service \in {"both", "opensubtitles"}

\* lines 1609-1624, s the search() call
AllSubDLBlock(a, settings, s) ==
    AdapterBlock(AdapterStart, RunsSubDL(a, settings),
                 <<TierCall("film_name", s)>>, s.results, s.raised)

\* lines 1626-1633, o the search_opensubtitles() call
AllOSBlock(a, settings, st, o) ==
    AdapterBlock(st, RunsOpenSubtitles(a, settings), <<o>>, o.results, o.raised)

AllFinish(settings, query, languages, st) ==
    CallRecord("search_all", query, languages, st,
               AggregateAll(st.results, settings.max_results))

\* rs, ro: the upstream outcomes of the SubDL and OpenSubtitles requests
search_all(a, settings, query, languages_arg, rs, ro) ==
    AllFinish(settings, query, CallLanguages(settings, languages_arg),
        AllOSBlock(a, settings,
            AllSubDLBlock(a, settings,
                SubDLSearch(a.subdl_api.api_key, query, None, None, rs)),
            search_opensubtitles(a.opensubtitles_api_key, query,
                                 CallLanguages(settings, languages_arg), ro)))

---------------------------------------------------------------------------
(* SubtitlesAPI.search_all_smart *)

\* method.upper()
MethodUpper(method) ==
    CASE method = "imdb" -> <<"I", "M", "D", "B">>
      [] method = "file_name" -> <<"F", "I", "L", "E", "_", "N", "A", "M", "E">>
      [] method = "film_name" -> <<"F", "I", "L", "M", "_", "N", "A", "M", "E">>
      [] method = "standard" -> <<"S", "T", "A", "N", "D", "A", "R", "D">>
      [] OTHER -> <<>>

\* lines 1509-1515: title.startswith of a None title raises AttributeError
MarkRaises(r) == r.search_method # NoMethod /\ r.title = None

Mark(r) ==
    IF r.search_method # NoMethod /\ ~(Len(r.title) > 0 /\ r.title[1] = "[")
    THEN [r EXCEPT !.site = "subdl",
                   !.title = <<"[">> \o MethodUpper(r.search_method)
                             \o <<"]", " ">> \o r.title]
    ELSE [r EXCEPT !.site = "subdl"]

\* key = f"{site}_{file_id}" or f"{site}_{title}_{lang}" (lines 1536-1545);
\* the site is a prefix that no other site's key starts with
SmartKey(r) ==
    <<r.site,
      IF Truthy(r.file_id) THEN r.file_id
      ELSE Take(Lower(r.title), TitleCut) \o <<"_">> \o Lower(r.language)>>

\* title and language are lower-cased for every record, with or without file_id
SmartKeyRaises(r) == r.title = None \/ r.language = None

\* sort_key of search_all_smart, lines 1552-1575
SmartRank(r) ==
    IF r.site = "subdl"
    THEN CASE r.search_method = "imdb" -> 0
           [] r.search_method = "file_name" -> 1
           [] r.search_method = "film_name" -> 2
           [] OTHER -> 3
    ELSE IF r.site = "opensubtitles" THEN 4 ELSE 5

SmartSortLt(a, b) == SmartRank(a) < SmartRank(b)

SmartAggUnique(all_results) == FirstByKey(all_results, SmartKey)

\* the aggregation without its final slice
AggregateSmartUncut(all_results, max_results) ==
    IF \E i \in 1..Len(all_results) : SmartKeyRaises(all_results[i])
    THEN [raised |-> TRUE, unique |-> <<>>, output |-> <<>>]
    ELSE LET unique_results == StableSort(SmartAggUnique(all_results), SmartSortLt)
         IN  [raised |-> FALSE, unique |-> unique_results,
              output |-> unique_results]

\* lines 1531-1584 on the merged list all_results
AggregateSmart(all_results, max_results) ==
    IF \E i \in 1..Len(all_results) : SmartKeyRaises(all_results[i])
    THEN [raised |-> TRUE, unique |-> <<>>, output |-> <<>>]
    ELSE LET unique_results == StableSort(SmartAggUnique(all_results), SmartSortLt)
         IN  [raised |-> FALSE, unique |-> unique_results,
              output |-> Take(unique_results, max_results)]

\* lines 1498-1518, ss the smart_search() call
SmartSubDLBlock(a, settings, ss) ==
    AdapterBlock(AdapterStart, RunsSubDL(a, settings), ss.calls,
                 [i \in 1..Len(ss.results) |-> Mark(ss.results[i])],
                 ss.raised \/ \E i \in 1..Len(ss.results) : MarkRaises(ss.results[i]))

\* lines 1520-1529, o the search_opensubtitles() call
SmartOSBlock(a, settings, st, o) ==
    AdapterBlock(st, RunsOpenSubtitles(a, settings), <<o>>,
                 Tag(o.results, "standard"), o.raised)

SmartAllFinish(settings, query, languages, st) ==
    CallRecord("search_all_smart", query, languages, st,
               AggregateSmart(st.results, settings.max_results))

\* r1, r2, r3: outcomes of the SubDL tier requests; ro: of the OpenSubtitles one
search_all_smart(a, settings, query, languages_arg, r1, r2, r3, ro) ==
    SmartAllFinish(settings, query, CallLanguages(settings, languages_arg),
        SmartOSBlock(a, settings,
            SmartSubDLBlock(a, settings,
                smart_search(a.subdl_api.api_key, query, r1, r2, r3)),
            search_opensubtitles(a.opensubtitles_api_key, query,
                                 CallLanguages(settings, languages_arg), ro)))

---------------------------------------------------------------------------
(* Inputs: queries, language lists, upstream responses *)

en == <<"e", "n">>

\* queries as the search screens pass them: stripped and non-empty
QTitle == <<"M", "x">>
QImdb == <<"t", "t", "1", "3", "7", "5", "6", "6", "6">>
Queries == {QTitle, QImdb}

DefaultLanguages == << <<"s", "r">>, <<"h", "r">> >>

\* the languages argument: None (the default) or a list
LanguageArgs == {None, << <<"E", "N", "G">> >>}

\* the languages of settings.json: the default, or one one-letter code
StoredLanguages == {DefaultLanguages, << <<"x">> >>}

SeqsUpTo(S, n) == UNION {[1..k -> S] : k \in 0..n}

\* subtitle entries of a SubDL response
SubA == [release |-> <<>>, language_name |-> en, file_id |-> <<"1", "-", "2">>,
         download_count |-> 5, rating |-> 0]
SubB == [release |-> <<"r">>, language_name |-> en, file_id |-> <<"3", "-", "4">>,
         download_count |-> 9, rating |-> 0]
SubEntries == {SubA, SubB}

\* results[0].name of a SubDL response: no results entry, or "name": null
SubNames == {Absent, None}

NoResponse == [kind |-> "none"]

SubDLResponses ==
    {[kind |-> k] : k \in {"exception", "http_error", "status_false"}} \cup
    {[kind |-> "ok", name |-> n, subs |-> subs] :
        n \in SubNames, subs \in SeqsUpTo(SubEntries, MaxSubs)}

\* items of an OpenSubtitles response
OsA == [release_name |-> <<"A">>, movie_name |-> Absent, language |-> en,
        release |-> <<>>, file_id |-> <<"7">>, download_count |-> 3,
        ratings |-> 0, has_files |-> TRUE]
OsB == [release_name |-> None, movie_name |-> Absent, language |-> None,
        release |-> <<>>, file_id |-> <<"8">>, download_count |-> 9,
        ratings |-> 0, has_files |-> TRUE]
OsC == [release_name |-> <<"C">>, movie_name |-> Absent, language |-> en,
        release |-> <<>>, file_id |-> <<>>, download_count |-> 0,
        ratings |-> 0, has_files |-> FALSE]
OsItems == {OsA, OsB, OsC}

\* a page of the response lists an item once
OsPages ==
    {d \in SeqsUpTo(OsItems, MaxSubs) :
        \A i, j \in 1..Len(d) : i # j => d[i] # d[j]}

OSResponses ==
    {[kind |-> k] : k \in {"exception", "http_error", "malformed"}} \cup
    {[kind |-> "ok", data |-> d] : d \in OsPages}

---------------------------------------------------------------------------
(* The plugin: settings and key files, the SubtitlesAPI instance, one call *)

ApiKeys == {<<>>, <<"k">>}

NoCall == [op |-> "none"]

NoAgg == [op |-> "none"]

\* SubtitlesAPI.__init__ and update_api_keys: the keys as the files hold them
ReadKeys(st) ==
    [opensubtitles_api_key |-> st.opensubtitles_key,
     subdl_api_key |-> st.subdl_key,
     subdl_api |-> [api_key |-> st.subdl_key]]

Init ==
    /\ store \in [subdl_key : ApiKeys, opensubtitles_key : ApiKeys,
                  use_subdl : BOOLEAN, use_opensubtitles : BOOLEAN,
                  preferred_service : {"both"},
                  languages : {DefaultLanguages},
                  max_results : {DefaultMaxResults}]
    /\ api = ReadKeys(store)
    /\ phase = "idle"
    /\ call = NoCall
    /\ arrival = <<>>
    /\ agg = NoAgg
    /\ edited = FALSE
    /\ last_languages = Absent

\* OpenSubtitlesConfigScreen.keySave: write settings.json, update_api_keys
keySave ==
    /\ phase = "idle"
    /\ \E service \in {"both", "subdl", "opensubtitles"},
          languages \in StoredLanguages,
          max_results \in {SmallCap, DefaultMaxResults} :
          store' = [store EXCEPT !.preferred_service = service,
                                 !.languages = languages,
                                 !.max_results = max_results]
    /\ api' = ReadKeys(store')
    /\ edited' = FALSE
    /\ UNCHANGED <<phase, call, arrival, agg, last_languages>>

\* OpenSubtitlesApiKeysScreen.subdlKeyCallback: a non-empty key is saved
subdlKeyCallback ==
    /\ phase = "idle"
    /\ \E key \in ApiKeys \ {<<>>} :
          /\ store' = [store EXCEPT !.subdl_key = key]
          /\ api' = [api EXCEPT !.subdl_api_key = key, !.subdl_api.api_key = key]
    /\ edited' = FALSE
    /\ UNCHANGED <<phase, call, arrival, agg, last_languages>>

\* OpenSubtitlesApiKeysScreen.opensubKeyCallback
opensubKeyCallback ==
    /\ phase = "idle"
    /\ \E key \in ApiKeys \ {<<>>} :
          /\ store' = [store EXCEPT !.opensubtitles_key = key]
          /\ api' = [api EXCEPT !.opensubtitles_api_key = key]
    /\ edited' = FALSE
    /\ UNCHANGED <<phase, call, arrival, agg, last_languages>>

\* the responses a request can get, when the request can be made at all
SubDLOutcomes(made) == IF made THEN SubDLResponses ELSE {NoResponse}
OSOutcomes(made) == IF made THEN OSResponses ELSE {NoResponse}

\* a search screen's doSearch calling api.search_all
SearchAll ==
    /\ phase = "idle"
    /\ \E query \in Queries, languages \in LanguageArgs :
       \E rs \in SubDLOutcomes(RunsSubDL(api, store)),
          ro \in OSOutcomes(RunsOpenSubtitles(api, store)) :
          call' = search_all(api, store, query, languages, rs, ro)
    /\ phase' = "returned"
    /\ edited' = FALSE
    /\ UNCHANGED <<store, api, arrival, agg, last_languages>>

\* would the tier after the progress st send a request
FileTierAsks(st) == ~st.raised /\ RunsFileTier(st.all_results)
FilmTierAsks(st) == ~st.raised /\ RunsFilmTier(st.all_results)

\* a search screen's doSearch calling api.search_all_smart; a tier's response
\* is drawn only when the tiers before it let the tier run
SearchAllSmart ==
    /\ phase = "idle"
    /\ \E query \in Queries, languages \in LanguageArgs :
       \E r1 \in SubDLOutcomes(RunsSubDL(api, store)
                               /\ RunsImdbTier(extract_imdb_id(query))) :
       \E r2 \in SubDLOutcomes(RunsSubDL(api, store) /\ FileTierAsks(
                    SmartImdbTier(api.subdl_api.api_key, query,
                                  extract_imdb_id(query), r1))) :
       \E r3 \in SubDLOutcomes(RunsSubDL(api, store) /\ FilmTierAsks(
                    SmartFileTier(api.subdl_api.api_key, query,
                        SmartImdbTier(api.subdl_api.api_key, query,
                                      extract_imdb_id(query), r1), r2))),
          ro \in OSOutcomes(RunsOpenSubtitles(api, store)) :
          call' = search_all_smart(api, store, query, languages, r1, r2, r3, ro)
    /\ phase' = "returned"
    /\ edited' = FALSE
    /\ UNCHANGED <<store, api, arrival, agg, last_languages>>

\* the call has returned (or raised) into the screen, which keeps the list;
\* the aggregator keeps nothing of it
Return ==
    /\ phase = "returned"
    /\ phase' = "idle"
    /\ call' = NoCall
    /\ UNCHANGED <<store, api, arrival, agg, edited, last_languages>>

Next ==
    \/ keySave
    \/ subdlKeyCallback
    \/ opensubKeyCallback
    \/ SearchAll
    \/ SearchAllSmart
    \/ Return

Spec == Init /\ [][Next]_vars

---------------------------------------------------------------------------
(* The aggregation steps on their own: deduplicate, rank, truncate applied  *)
(* to a merged adapter list drawn from a set of records                     *)

Long50 == [i \in 1..TitleCut |-> "x"]

\* SubDL records as parse_api_response builds them
RecD1 == Result("subdl", <<"a">>, en, <<>>, <<"1">>, 5, 0)
\* the handle of RecD1 under another title and release
RecD2 == Result("subdl", <<"b">>, en, <<"r">>, <<"1">>, 5, 1)
\* without handle; title and language differ in letter case only
RecD3 == Result("subdl", <<"a">>, <<"E", "N">>, <<>>, <<>>, 5, 0)
RecD4 == Result("subdl", <<"A">>, en, <<>>, <<>>, 3, 0)
\* without handle; the titles differ after 50 characters only
RecD5 == Result("subdl", Long50 \o <<"y">>, en, <<>>, <<>>, 1, 0)
RecD6 == Result("subdl", Long50 \o <<"z">>, en, <<>>, <<>>, 2, 0)
\* without handle; title_language reads a_b_c for both
RecD7 == Result("subdl", <<"a", "_", "b">>, <<"c">>, <<>>, <<>>, 4, 0)
RecD8 == Result("subdl", <<"a">>, <<"b", "_", "c">>, <<>>, <<>>, 4, 0)
\* a handle that reads like the title_language of RecD3
RecD9 == Result("subdl", <<"b">>, en, <<>>, <<"a", "_", "E", "N">>, 0, 0)
\* OpenSubtitles records: one handle with two download counts
RecO1 == Result("opensubtitles", <<"a">>, en, <<>>, <<"7">>, 3, 0)
RecO2 == Result("opensubtitles", <<"a">>, en, <<>>, <<"7">>, 9, 1)
\* "language": null in the upstream item
RecO3 == Result("opensubtitles", <<"c">>, None, <<>>, <<"8">>, 1, 0)

AggRecords ==
    {RecD1, RecD2, RecD3, RecD4, RecD5, RecD6, RecD7, RecD8, RecD9,
     RecO1, RecO2, RecO3}

\* all_results is built SubDL block first, OpenSubtitles block second
BlockOrdered(s) ==
    \A i, j \in 1..Len(s) :
        (i < j /\ s[i].site = "opensubtitles") => s[j].site = "opensubtitles"

SitePart(s, site) == Filter(s, LAMBDA r : r.site = site)

Methods == {"imdb", "file_name", "film_name"}

MaxResultsChoices == {SmallCap, DefaultMaxResults}

InitAgg ==
    /\ store = [subdl_key |-> <<"k">>, opensubtitles_key |-> <<"k">>,
                use_subdl |-> TRUE, use_opensubtitles |-> TRUE,
                preferred_service |-> "both", languages |-> DefaultLanguages,
                max_results |-> DefaultMaxResults]
    /\ api = ReadKeys(store)
    /\ phase = "idle"
    /\ call = NoCall
    /\ arrival \in {s \in SeqsUpTo(AggRecords, MaxRecs) : BlockOrdered(s)}
    /\ agg = NoAgg
    /\ edited = FALSE
    /\ last_languages = Absent

\* search_all, lines 1635-1666, on the adapters' records in arrival
RunAggregateAll ==
    /\ agg = NoAgg
    /\ \E max_results \in MaxResultsChoices :
          agg' = [op |-> "search_all", max_results |-> max_results,
                  all_results |-> arrival]
                 @@ AggregateAll(arrival, max_results)
    /\ UNCHANGED <<store, api, phase, call, arrival, edited, last_languages>>

\* the list search_all_smart merges when the SubDL tier that answered is
\* method: smart_search lines 141-159, then lines 1509-1528
SmartMerged(records, method) ==
    LET ss == SmartUnique(Tag(SitePart(records, "subdl"), method))
    IN  [i \in 1..Len(ss) |-> Mark(ss[i])]
        \o Tag(SitePart(records, "opensubtitles"), "standard")

\* search_all_smart, lines 1531-1584
RunAggregateSmart ==
    /\ agg = NoAgg
    /\ \E max_results \in MaxResultsChoices, method \in Methods :
          agg' = [op |-> "search_all_smart", max_results |-> max_results,
                  method |-> method,
                  all_results |-> SmartMerged(arrival, method)]
                 @@ AggregateSmart(SmartMerged(arrival, method), max_results)
    /\ UNCHANGED <<store, api, phase, call, arrival, edited, last_languages>>

NextAgg ==
    \/ RunAggregateAll
    \/ RunAggregateSmart

SpecAgg == InitAgg /\ [][NextAgg]_vars

---------------------------------------------------------------------------
(* The adapters' searches and the languages they ask for *)

UpperChar(c) ==
    IF \E u \in DOMAIN ToLower : ToLower[u] = c
    THEN CHOOSE u \in DOMAIN ToLower : ToLower[u] = c
    ELSE c

\* str.upper()
Upper(s) == [i \in 1..Len(s) |-> UpperChar(s[i])]

\* s.startswith(p)
StartsWith(s, p) == Len(p) <= Len(s) /\ SubSeq(s, 1, Len(p)) = p

\* p in s
Contains(s, p) ==
    \E i \in 0..(Len(s) - Len(p)) : SubSeq(s, i + 1, i + Len(p)) = p

AllWord == <<"a", "l", "l">>

\* SubDLAPI.search, lang_map of lines 204-222
SubDLLangMap ==
    (<<"s", "r">> :> <<"S", "R">>) @@ (<<"s", "r", "p">> :> <<"S", "R">>) @@
    (<<"s", "c", "c">> :> <<"S", "R">>) @@ (<<"s", "r", "b">> :> <<"S", "R">>) @@
    (<<"h", "r">> :> <<"H", "R">>) @@ (<<"h", "r", "v">> :> <<"H", "R">>) @@
    (<<"b", "s">> :> <<"B", "S">>) @@ (<<"b", "o", "s">> :> <<"B", "S">>) @@
    (<<"s", "l">> :> <<"S", "L">>) @@ (<<"s", "l", "v">> :> <<"S", "L">>) @@
    (<<"s", "k">> :> <<"S", "K">>) @@ (<<"s", "l", "k">> :> <<"S", "K">>) @@
    (<<"c", "s">> :> <<"C", "S">>) @@ (<<"c", "z", "e">> :> <<"C", "S">>) @@
    (<<"c", "e", "s">> :> <<"C", "S">>) @@ (<<"e", "n">> :> <<"E", "N">>) @@
    (<<"e", "n", "g">> :> <<"E", "N">>) @@ (<<"m", "k">> :> <<"M", "K">>) @@
    (<<"m", "k", "d">> :> <<"M", "K">>) @@ (<<"b", "g">> :> <<"B", "G">>) @@
    (<<"b", "u", "l">> :> <<"B", "G">>) @@ (<<"r", "o">> :> <<"R", "O">>) @@
    (<<"r", "u", "m">> :> <<"R", "O">>) @@ (<<"p", "l">> :> <<"P", "L">>) @@
    (<<"p", "o", "l">> :> <<"P", "L">>) @@ (<<"a", "r">> :> <<"A", "R">>) @@
    (<<"a", "r", "a">> :> <<"A", "R">>) @@ (<<"f", "r">> :> <<"F", "R">>) @@
    (<<"f", "r", "a">> :> <<"F", "R">>) @@ (<<"d", "e">> :> <<"D", "E">>) @@
    (<<"d", "e", "u">> :> <<"D", "E">>) @@ (<<"e", "s">> :> <<"E", "S">>) @@
    (<<"s", "p", "a">> :> <<"E", "S">>) @@ (<<"i", "t">> :> <<"I", "T">>) @@
    (<<"i", "t", "a">> :> <<"I", "T">>) @@ (<<"r", "u">> :> <<"R", "U">>) @@
    (<<"r", "u", "s">> :> <<"R", "U">>)

\* line 229: the list an 'all' entry stands for
SubDLAllLanguages ==
    <<<<"S", "R">>, <<"H", "R">>, <<"B", "S">>, <<"S", "L">>,
      <<"S", "K">>, <<"C", "S">>, <<"E", "N">>, <<"M", "K">>,
      <<"B", "G">>, <<"R", "O">>, <<"P", "L">>, <<"A", "R">>,
      <<"F", "R">>, <<"D", "E">>, <<"E", "S">>, <<"I", "T">>,
      <<"R", "U">>>>

SubDLDefaultLanguages == << <<"S", "R">> >>

\* lines 225-237: the list joined into the "languages" parameter
SubDLLanguages(languages) ==
    LET langs == IF languages = None \/ languages = <<>>
                 THEN SubDLDefaultLanguages ELSE languages
        lang_lower(i) == Strip(Lower(langs[i]))
        converted(i) == IF lang_lower(i) \in DOMAIN SubDLLangMap
                        THEN SubDLLangMap[lang_lower(i)]
                        ELSE Upper(Take(lang_lower(i), 2))
        all == [i \in 1..Len(langs) |-> converted(i)]
        subdl_langs == FirstByKey(Filter(all, LAMBDA c : c # <<>>), LAMBDA c : c)
    IN  IF \E i \in 1..Len(langs) : lang_lower(i) = AllWord
        THEN SubDLAllLanguages
        ELSE IF subdl_langs = <<>> THEN SubDLDefaultLanguages ELSE subdl_langs

\* TitloviAPI.search, line 538
TitloviSupported == <<<<"s", "r">>, <<"h", "r">>, <<"b", "s">>, <<"s", "l">>, <<"m", "k">>, <<"b", "g">>, <<"m", "e">>>>

\* the elif chain of lines 546-559
TitloviLangMap ==
    (<<"s", "r", "p">> :> <<"s", "r">>) @@ (<<"s", "c", "c">> :> <<"s", "r">>) @@
    (<<"s", "r", "b">> :> <<"s", "r">>) @@ (<<"s", "r">> :> <<"s", "r">>) @@
    (<<"h", "r", "v">> :> <<"h", "r">>) @@ (<<"h", "r">> :> <<"h", "r">>) @@
    (<<"b", "o", "s">> :> <<"b", "s">>) @@ (<<"b", "s">> :> <<"b", "s">>) @@
    (<<"s", "l", "v">> :> <<"s", "l">>) @@ (<<"s", "l">> :> <<"s", "l">>) @@
    (<<"m", "k", "d">> :> <<"m", "k">>) @@ (<<"m", "k">> :> <<"m", "k">>) @@
    (<<"b", "u", "l">> :> <<"b", "g">>) @@ (<<"b", "g">> :> <<"b", "g">>) @@
    (<<"c", "n", "r">> :> <<"m", "e">>) @@ (<<"m", "e">> :> <<"m", "e">>)

TitloviDefaultLanguages == << <<"s", "r">> >>

\* lines 540-564: the list the results are filtered by
TitloviLanguages(languages) ==
    LET langs == IF languages = None THEN <<>> ELSE languages
        lang_lower(i) == Strip(Lower(langs[i]))
        known == Filter([i \in 1..Len(langs) |-> lang_lower(i)],
                        LAMBDA l : l \in DOMAIN TitloviLangMap)
        filtered_langs == [k \in 1..Len(known) |-> TitloviLangMap[known[k]]]
    IN  IF \E i \in 1..Len(langs) : lang_lower(i) = AllWord
        THEN TitloviSupported
        ELSE IF filtered_langs = <<>> THEN TitloviDefaultLanguages
        ELSE filtered_langs

\* TitloviAPI.filter_by_language, lines 988-1011
filter_by_language(results, languages) ==
    IF languages = <<>> \/ \E i \in 1..Len(languages) : Lower(languages[i]) = AllWord
    THEN results
    ELSE Filter(results, LAMBDA result :
            \E i \in 1..Len(languages) :
               \/ Contains(Lower(result.language), Lower(languages[i]))
               \/ StartsWith(Lower(result.language_code), Lower(languages[i]))
               \/ StartsWith(Lower(languages[i]), Lower(result.language_code)))

\* TitloviAPI.search, lines 526-615: always one request for the page of
\* results; every failure gives []
TitloviSearch(query, languages, resp) ==
    [sent |-> TRUE, adapter |-> "titlovi", param |-> "prevod",
     value |-> Strip(query), outcome |-> resp.kind, raised |-> FALSE,
     langs |-> TitloviLanguages(languages),
     results |-> IF resp.kind = "ok"
                 THEN filter_by_language(resp.records, TitloviLanguages(languages))
                 ELSE <<>>]

\* records as parse_prevodi_list builds them, lines 886-893
TitA == [site |-> "titlovi", title |-> <<"a">>, language |-> <<"s", "r", "p", "s", "k", "i">>,
         language_code |-> <<"s", "r", "p">>, media_id |-> <<"1">>]
TitB == [site |-> "titlovi", title |-> <<"a">>, language |-> <<"E", "n", "g", "l", "i", "s", "h">>,
         language_code |-> <<"e", "n", "g">>, media_id |-> <<"2">>]

TitloviResponses ==
    {[kind |-> k] : k \in {"exception", "http_error"}} \cup
    {[kind |-> "ok", records |-> <<TitA, TitB>>]}

\* the language codes a caller passes
LangCodes ==
    {<<"s", "r">>, <<"E", "N", "G">>, <<"d", "e">>, <<"x">>, <<"x", "x">>,
     AllWord, <<"A", "L", "L">>}

LanguageLists == {None} \cup SeqsUpTo(LangCodes, MaxLangs)

\* the responses the key services give in the language checks
SubDLLangResponses ==
    {[kind |-> "http_error"], [kind |-> "ok", name |-> Absent, subs |-> <<SubA>>]}

OSLangResponses == {[kind |-> "http_error"], [kind |-> "ok", data |-> <<OsA>>]}

InitLang ==
    /\ store \in [subdl_key : ApiKeys, opensubtitles_key : ApiKeys,
                  use_subdl : {TRUE}, use_opensubtitles : {TRUE},
                  preferred_service : {"both"},
                  languages : {DefaultLanguages},
                  max_results : {DefaultMaxResults}]
    /\ api = ReadKeys(store)
    /\ phase = "idle"
    /\ call = NoCall
    /\ arrival = <<>>
    /\ agg = NoAgg
    /\ edited = FALSE
    /\ last_languages = Absent

\* SubDLAPI.search(query, languages)
SubDLSearchCall ==
    /\ phase = "idle"
    /\ \E languages \in LanguageLists, resp \in SubDLLangResponses :
          call' = [op |-> "SubDLAPI.search", languages |-> languages,
                   langs |-> IF api.subdl_api.api_key = <<>> THEN <<>>
                             ELSE SubDLLanguages(languages)]
                  @@ SubDLSearch(api.subdl_api.api_key, QTitle, None, None, resp)
    /\ phase' = "returned"
    /\ edited' = FALSE
    /\ UNCHANGED <<store, api, arrival, agg, last_languages>>

\* SubtitlesAPI.search_opensubtitles(query, languages)
OpenSubtitlesSearchCall ==
    /\ phase = "idle"
    /\ \E languages \in LanguageLists, resp \in OSLangResponses :
          call' = [op |-> "search_opensubtitles", languages |-> languages,
                   langs |-> IF api.opensubtitles_api_key = <<>> THEN {}
                             ELSE OSLanguages(languages)]
                  @@ search_opensubtitles(api.opensubtitles_api_key, QTitle,
                                          languages, resp)
    /\ phase' = "returned"
    /\ edited' = FALSE
    /\ UNCHANGED <<store, api, arrival, agg, last_languages>>

\* TitloviAPI.search(query, languages)
TitloviSearchCall ==
    /\ phase = "idle"
    /\ \E languages \in LanguageLists, resp \in TitloviResponses :
          /\ call' = [op |-> "TitloviAPI.search", languages |-> languages]
                     @@ TitloviSearch(QTitle, languages, resp)
          /\ last_languages' = TitloviLanguages(languages)
    /\ phase' = "returned"
    /\ edited' = FALSE
    /\ UNCHANGED <<store, api, arrival, agg>>

NextLang ==
    \/ SubDLSearchCall
    \/ OpenSubtitlesSearchCall
    \/ TitloviSearchCall
    \/ Return

SpecLang == InitLang /\ [][NextLang]_vars

---------------------------------------------------------------------------
(* TitloviAPI.parse_prevodi_list: candidates, detail pages, placeholders *)

\* at most this many candidates of a page are processed
MaxCandidates == 10
\* detail pages are fetched for this many of them
DetailCutoff == 5

Srpski == <<"s", "r", "p", "s", "k", "i">>

\* TitloviAPI.get_lang_code, lines 1013-1032 (the Latin-script names)
LangNames ==
    <<[key |-> Srpski, code |-> <<"s", "r", "p">>],
      [key |-> <<"s", "e", "r", "b", "i", "a", "n">>, code |-> <<"s", "r", "p">>],
      [key |-> <<"h", "r", "v", "a", "t", "s", "k", "i">>, code |-> <<"h", "r", "v">>],
      [key |-> <<"c", "r", "o", "a", "t", "i", "a", "n">>, code |-> <<"h", "r", "v">>],
      [key |-> <<"b", "o", "s", "a", "n", "s", "k", "i">>, code |-> <<"b", "o", "s">>],
      [key |-> <<"b", "o", "s", "n", "i", "a", "n">>, code |-> <<"b", "o", "s">>],
      [key |-> <<"s", "l", "o", "v", "e", "n", "i", "a", "n">>, code |-> <<"s", "l", "v">>],
      [key |-> <<"s", "l", "o", "v", "e", "n", "s", "k", "i">>, code |-> <<"s", "l", "v">>],
      [key |-> <<"m", "a", "k", "e", "d", "o", "n", "s", "k", "i">>, code |-> <<"m", "k", "d">>],
      [key |-> <<"m", "a", "c", "e", "d", "o", "n", "i", "a", "n">>, code |-> <<"m", "k", "d">>],
      [key |-> <<"b", "u", "g", "a", "r", "s", "k", "i">>, code |-> <<"b", "u", "l">>],
      [key |-> <<"b", "u", "l", "g", "a", "r", "i", "a", "n">>, code |-> <<"b", "u", "l">>],
      [key |-> <<"c", "r", "n", "o", "g", "o", "r", "s", "k", "i">>, code |-> <<"c", "n", "r">>],
      [key |-> <<"m", "o", "n", "t", "e", "n", "e", "g", "r", "i", "n">>, code |-> <<"c", "n", "r">>],
      [key |-> <<"e", "n", "g", "l", "e", "s", "k", "i">>, code |-> <<"e", "n", "g">>],
      [key |-> <<"e", "n", "g", "l", "i", "s", "h">>, code |-> <<"e", "n", "g">>]>>

get_lang_code(language) ==
    LET hits == {i \in 1..Len(LangNames) :
                    Contains(Lower(language), LangNames[i].key)}
    IN  IF hits = {} THEN <<"s", "r", "p">>
        ELSE LangNames[CHOOSE i \in hits : \A j \in hits : i <= j].code

\* TitloviAPI.create_simple_result, lines 944-967
create_simple_result(prevod_id, query) ==
    [site |-> "titlovi", title |-> query \o <<" ", "-", " ">> \o prevod_id,
     language |-> Srpski, language_code |-> <<"s", "r", "p">>,
     media_id |-> prevod_id, search_method |-> "simple"]

\* TitloviAPI.fetch_prevod_details, lines 800-942: d answers the request
\* for the detail page
fetch_prevod_details(prevod_id, query, fetch_details, d) ==
    IF ~fetch_details \/ d.kind # "ok"
    THEN create_simple_result(prevod_id, query)
    ELSE [site |-> "titlovi", title |-> d.title, language |-> d.language,
          language_code |-> get_lang_code(d.language),
          media_id |-> prevod_id, search_method |-> "prevod_page"]

IsDigits(s) == s # <<>> /\ \A i \in 1..Len(s) : IsDigit(s[i])

\* lines 723-730: the id a match of the page gives, None for a match that
\* is skipped.  A match of the first pattern is a tuple with the id third;
\* a match of the second pattern is the id's digit string, which the same
\* unpacking cuts into its first three characters; a match of the third
\* pattern is a pair and is skipped.
MatchId(m) ==
    IF m.kind = "link" THEN m.id
    ELSE IF m.kind = "digits" /\ Len(m.text) >= 3 THEN <<m.text[3]>>
    ELSE IF m.kind = "digits" /\ Len(m.text) = 1 THEN m.text
    ELSE None

\* lines 719-742: the ids kept, first occurrence first
RECURSIVE UniquePrevods(_)
UniquePrevods(matches) ==
    IF matches = <<>> THEN <<>>
    ELSE LET before == UniquePrevods(SubSeq(matches, 1, Len(matches) - 1))
             prevod_id == MatchId(matches[Len(matches)])
         IN  IF /\ prevod_id # None
                /\ IsDigits(prevod_id)
                /\ \A i \in 1..Len(before) : before[i] # prevod_id
             THEN Append(before, prevod_id)
             ELSE before

\* parse_prevodi_list without the cut to the first candidates
ParseEveryCandidate(page, query, details) ==
    LET prevod_ids == UniquePrevods(page.matches)
    IN  IF prevod_ids = <<>> /\ page.direct # None
        THEN [candidates |-> <<>>, detail_requests |-> <<>>,
              results |-> <<create_simple_result(page.direct, query)>>]
        ELSE [candidates |-> prevod_ids,
              detail_requests |-> Take(prevod_ids, DetailCutoff),
              results |-> [i \in 1..Len(prevod_ids) |->
                  fetch_prevod_details(prevod_ids[i], query, i <= DetailCutoff,
                      IF i <= DetailCutoff THEN details[i] ELSE NoResponse)]]

\* TitloviAPI.parse_prevodi_list, lines 677-798: page holds the matches of
\* the page and, for a page that is itself one subtitle's page, its id;
\* details[i] answers the detail request of the i-th candidate
parse_prevodi_list(page, query, details) ==
    LET unique_prevods == UniquePrevods(page.matches)
        prevod_ids == Take(unique_prevods, MaxCandidates)
    IN  IF unique_prevods = <<>> /\ page.direct # None
        THEN [candidates |-> <<>>, detail_requests |-> <<>>,
              results |-> <<create_simple_result(page.direct, query)>>]
        ELSE [candidates |-> prevod_ids,
              detail_requests |-> Take(prevod_ids, DetailCutoff),
              results |-> [i \in 1..Len(prevod_ids) |->
                  fetch_prevod_details(prevod_ids[i], query, i <= DetailCutoff,
                      IF i <= DetailCutoff THEN details[i] ELSE NoResponse)]]

\* TitloviAPI.search with the page of results parsed, lines 526-615
TitloviScrape(query, languages, resp, details) ==
    IF resp.kind # "ok"
    THEN TitloviSearch(query, languages, resp)
         @@ [candidates |-> <<>>, detail_requests |-> <<>>, parsed |-> <<>>]
    ELSE LET p == parse_prevodi_list(resp.page, query, details)
         IN  TitloviSearch(query, languages,
                           [kind |-> "ok", records |-> p.results])
             @@ [candidates |-> p.candidates,
                 detail_requests |-> p.detail_requests, parsed |-> p.results]

\* the most links a page of results holds here
MaxLinks == 11

PrevodDigits == <<"0", "1", "2", "3", "4", "5", "6", "7", "8", "9">>

\* the id of the i-th link
PrevodId(i) == <<"9", PrevodDigits[(i \div 10) + 1], PrevodDigits[(i % 10) + 1]>>

Links(n) ==
    [i \in 1..n |-> [kind |-> "link", path |-> <<"f", "-">> \o PrevodId(i),
                     id |-> PrevodId(i)]]

\* pages of results: n links; MaxLinks links with the third one repeated at
\* the front; matches that are bare digit strings or pairs; one subtitle's page
ScrapePages ==
    {[matches |-> Links(n), direct |-> None] :
        n \in {0, 2, DetailCutoff + 1, MaxLinks}} \cup
    {[matches |-> <<Links(MaxLinks)[3]>> \o Links(MaxLinks), direct |-> None]} \cup
    {[matches |-> <<[kind |-> "digits", text |-> <<"1", "2", "3", "4">>],
                    [kind |-> "digits", text |-> <<"7">>],
                    [kind |-> "digits", text |-> <<"1", "2">>],
                    [kind |-> "pair"]>>, direct |-> None],
     [matches |-> <<>>, direct |-> PrevodId(1)]}

ScrapeResponses ==
    {[kind |-> k] : k \in {"exception", "http_error"}} \cup
    {[kind |-> "ok", page |-> p] : p \in ScrapePages}

DetailResponses ==
    {[kind |-> "exception"], [kind |-> "http_error"],
     [kind |-> "ok", title |-> <<"T">>, language |-> <<"H", "r", "v", "a", "t", "s", "k", "i">>]}

\* the language lists a search is asked with
ScrapeLanguages ==
    {None, << <<"s", "r", "p">> >>, << <<"h", "r", "v">> >>,
     << <<"s", "r", "p">>, <<"h", "r", "v">> >>, << AllWord >>}

TitloviScrapeCall ==
    /\ phase = "idle"
    /\ \E languages \in ScrapeLanguages, resp \in ScrapeResponses,
          details \in [1..DetailCutoff -> DetailResponses] :
          /\ call' = [op |-> "TitloviAPI.search", languages |-> languages]
                     @@ TitloviScrape(QTitle, languages, resp, details)
          /\ last_languages' = TitloviLanguages(languages)
    /\ phase' = "returned"
    /\ edited' = FALSE
    /\ UNCHANGED <<store, api, arrival, agg>>

NextScrape ==
    \/ TitloviScrapeCall
    \/ Return

\* the Titlovi search needs no key and reads no setting
InitScrape ==
    /\ InitLang
    /\ store.subdl_key = <<>>
    /\ store.opensubtitles_key = <<>>

SpecScrape == InitScrape /\ [][NextScrape]_vars

---------------------------------------------------------------------------
(* extract_imdb_id on its own: the queries it is given *)

QueryPrefixes ==
    {<<>>, <<"i", "m", "d", "b">>, <<"i", "m", "d", "b", ":">>, <<"i", "m", "d", "b", "=">>, <<"I", "M", "D", "B", ":", " ">>, <<"a", " ", "t", " ">>}

QueryMarks == {<<"t", "t">>, <<"T", "T">>, <<"t", "T">>, <<"t">>}

QueryDigits ==
    {<<"1", "3", "7", "5", "6", "6">>, <<"1", "3", "7", "5", "6", "6", "6">>, <<"1", "3", "7", "5", "6", "6", "6", "7">>, <<"1", "3", "7", "5", "6", "6", "6", "7", "8">>}

QuerySuffixes == {<<>>, <<" ", "t", "t", "7", "6", "5", "4", "3", "2", "1">>, <<"z", " ">>}

QMatrix == <<"T", "h", "e", " ", "M", "a", "t", "r", "i", "x">>

ExtractQueries ==
    {QMatrix} \cup
    {p \o m \o d \o x : p \in QueryPrefixes, m \in QueryMarks,
                        d \in QueryDigits, x \in QuerySuffixes}

ExtractCall ==
    /\ phase = "idle"
    /\ \E query \in ExtractQueries :
          call' = [op |-> "extract_imdb_id", query |-> query,
                   imdb_id |-> extract_imdb_id(query)]
    /\ phase' = "returned"
    /\ edited' = FALSE
    /\ UNCHANGED <<store, api, arrival, agg, last_languages>>

NextExtract ==
    \/ ExtractCall
    \/ Return

SpecExtract == InitScrape /\ [][NextExtract]_vars

---------------------------------------------------------------------------
(* Downloads: payloads, format checks, the adapters' download routines *)

PK == <<"P", "K">>

Pad(n) == [i \in 1..n |-> " "]

\* \d{2}:\d{2}:\d{2}[,.]\d{3} at position i of text
TimeAt(text, i) ==
    /\ i >= 1
    /\ i + 11 <= Len(text)
    /\ \A k \in {0, 1, 3, 4, 6, 7, 9, 10, 11} : IsDigit(text[i + k])
    /\ text[i + 2] = ":"
    /\ text[i + 5] = ":"
    /\ text[i + 8] \in {",", "."}

AllSpace(text, from, to) == \A k \in from..to : IsSpace(text[k])

\* re.search of \d+\s*\r?\n TIME \s*-->\s* TIME, line 1270
SrtMatch(text) ==
    \E d \in 1..Len(text), n \in 1..Len(text) :
       /\ IsDigit(text[d])
       /\ d < n
       /\ AllSpace(text, d + 1, n)
       /\ text[n] = "\n"
       /\ TimeAt(text, n + 1)
       /\ \E a \in (n + 13)..Len(text), b \in (n + 13)..Len(text) :
             /\ AllSpace(text, n + 13, a - 1)
             /\ a + 2 <= Len(text)
             /\ SubSeq(text, a, a + 2) = <<"-", "-", ">">>
             /\ a + 3 <= b
             /\ AllSpace(text, a + 3, b - 1)
             /\ TimeAt(text, b)

\* TitloviAPI.is_subtitle_content, lines 1260-1288
is_subtitle_content(content) ==
    LET text == Take(content, SniffLen)
    IN  /\ Len(content) >= MinSubtitleLen
        /\ \/ SrtMatch(text)
           \/ StartsWith(Strip(text), <<"W", "E", "B", "V", "T", "T">>)
           \/ StartsWith(text, <<"{">>) /\ Contains(text, <<"}">>)
           \/ Contains(text, <<"[", "S", "c", "r", "i", "p", "t", " ", "I", "n", "f", "o", "]">>)

\* lines 1201-1202: '<html' or '<!doctype' in the lower-cased first bytes
LooksLikeHtml(content) ==
    LET text == Lower(Take(content, SniffLen))
    IN  \/ Contains(text, <<"<", "h", "t", "m", "l">>)
        \/ Contains(text, <<"<", "!", "d", "o", "c", "t", "y", "p", "e">>)

EndsWith(s, x) == Len(x) <= Len(s) /\ SubSeq(s, Len(s) - Len(x) + 1, Len(s)) = x

ExtSrt == <<".", "s", "r", "t">>

\* an archive that ZipFile cannot open
BadZip == <<[name |-> <<"BadZip">>, data |-> <<>>]>>

\* the first entry of the archive whose lower-cased name passes Is, or None
FirstEntry(archive, Is(_)) ==
    LET idx == {i \in 1..Len(archive) : Is(Lower(archive[i].name))}
    IN  IF idx = {} THEN None
        ELSE archive[CHOOSE i \in idx : \A j \in idx : i <= j].data

\* SubDLAPI.download, lines 450-481: what it returns for the payload c
SubDLUnpack(c) ==
    IF ~StartsWith(c.bytes, PK) \/ c.archive = BadZip THEN c.bytes
    ELSE LET srt == FirstEntry(c.archive, LAMBDA n : EndsWith(n, ExtSrt))
             txt == FirstEntry(c.archive, LAMBDA n :
                       \E ext \in {<<".", "s", "u", "b">>, <<".", "t", "x", "t">>, <<".", "a", "s", "s">>, <<".", "s", "s", "a">>, <<".", "v", "t", "t">>} :
                          EndsWith(n, ext))
         IN  IF srt # None THEN srt
             ELSE IF txt # None THEN txt
             ELSE IF c.archive # <<>> THEN c.archive[1].data
             ELSE c.bytes

\* what a download routine gives: the content it returns, the payload it
\* fetched with the archive in it, and the requests it sent, in order
Failed(requests) ==
    [content |-> None, payload |-> None, archive |-> <<>>,
     requests |-> requests, raised |-> FALSE]

NoContent == Failed(<<>>)

Fetched(content, c, requests) ==
    [content |-> content, payload |-> c.bytes, archive |-> c.archive,
     requests |-> requests, raised |-> FALSE]

\* a request a download routine sent and the kind of answer it got
Req(to, r) ==
    [to |-> to, kind |-> r.kind,
     status |-> IF r.kind = "ok" THEN 200
                ELSE IF r.kind = "http_error" THEN r.status
                ELSE 0]

\* download() asking the alternative URL whatever the first answer was
SubDLDownloadBothUrls(file_id, r1, r2) ==
    IF ~Truthy(file_id) THEN NoContent
    ELSE IF r1.kind = "exception" THEN Failed(<<Req("primary", r1)>>)
    ELSE IF r2.kind = "ok"
    THEN Fetched(SubDLUnpack(r2.content), r2.content,
                 <<Req("primary", r1), Req("alternate", r2)>>)
    ELSE Failed(<<Req("primary", r1), Req("alternate", r2)>>)

\* SubDLAPI.download(file_id): r1 answers the .zip URL, r2 the alternative
\* URL tried after a status other than 200
SubDLDownload(file_id, r1, r2) ==
    IF ~Truthy(file_id) THEN NoContent
    ELSE IF r1.kind = "ok"
    THEN Fetched(SubDLUnpack(r1.content), r1.content, <<Req("primary", r1)>>)
    ELSE IF r1.kind = "exception" THEN Failed(<<Req("primary", r1)>>)
    ELSE IF r2.kind = "ok"
    THEN Fetched(SubDLUnpack(r2.content), r2.content,
                 <<Req("primary", r1), Req("alternate", r2)>>)
    ELSE Failed(<<Req("primary", r1), Req("alternate", r2)>>)

\* download_opensubtitles, lines 1875-1889
OSUnpack(c) ==
    IF ~StartsWith(c.bytes, PK) \/ c.archive = BadZip THEN c.bytes
    ELSE LET srt == FirstEntry(c.archive, LAMBDA n : EndsWith(n, ExtSrt))
         IN  IF srt # None THEN srt
             ELSE IF c.archive # <<>> THEN c.archive[1].data
             ELSE c.bytes

\* SubtitlesAPI.download_opensubtitles(file_id): rp answers the POST that
\* asks for the link, rg the GET of the link; int(file_id) is outside the try
download_opensubtitles(api_key, file_id, rp, rg) ==
    IF api_key = <<>> THEN NoContent
    ELSE IF \E i \in 1..Len(file_id) : ~IsDigit(file_id[i])
    THEN [NoContent EXCEPT !.raised = TRUE]
    ELSE IF rp.kind # "ok" \/ ~rp.link THEN Failed(<<Req("link", rp)>>)
    ELSE IF rg.kind = "ok"
    THEN Fetched(OSUnpack(rg.content), rg.content,
                 <<Req("link", rp), Req("file", rg)>>)
    ELSE Failed(<<Req("link", rp), Req("file", rg)>>)

ExtensionsOrder ==
    <<<<".", "s", "r", "t">>, <<".", "s", "u", "b">>, <<".", "t", "x", "t">>, <<".", "a", "s", "s">>, <<".", "s", "s", "a">>, <<".", "v", "t", "t">>>>

\* TitloviAPI.extract_from_zip, lines 1216-1258
extract_from_zip(c) ==
    IF c.archive = BadZip THEN c.bytes
    ELSE LET hit == {<<e, i>> \in (1..Len(ExtensionsOrder)) \X (1..Len(c.archive)) :
                        /\ EndsWith(Lower(c.archive[i].name), ExtensionsOrder[e])
                        /\ Len(c.archive[i].data) > MinEntryLen}
             first == CHOOSE h \in hit : \A g \in hit :
                         h[1] < g[1] \/ (h[1] = g[1] /\ h[2] <= g[2])
         IN  IF hit # {} THEN c.archive[first[2]].data
             ELSE IF c.archive # <<>> THEN c.archive[1].data
             ELSE c.bytes

\* TitloviAPI.process_download_content, lines 1187-1214: the HTML test
\* writes a debug file and changes nothing of what is returned
process_download_content(c) ==
    IF Take(c.bytes, 2) = PK THEN extract_from_zip(c)
    ELSE IF is_subtitle_content(c.bytes) THEN c.bytes
    ELSE IF LooksLikeHtml(c.bytes) THEN c.bytes
    ELSE c.bytes

Accepted(r) == r.kind = "ok" /\ Len(r.content.bytes) > MinPayloadLen

\* TitloviAPI.download(result) and download_from_prevod_url, lines
\* 1034-1135: page answers the page of the subtitle (kind "ok" with or
\* without a download link in it), rg the GET of the link or of ?download=1,
\* rp the POST tried when the link's answer is not taken
TitloviDownload(media_id, page, rg, rp) ==
    IF ~Truthy(media_id) THEN NoContent
    ELSE IF page.kind # "ok" THEN Failed(<<Req("page", page)>>)
    ELSE IF ~page.link
    THEN IF Accepted(rg)
         THEN Fetched(process_download_content(rg.content), rg.content,
                      <<Req("page", page), Req("direct", rg)>>)
         ELSE Failed(<<Req("page", page), Req("direct", rg)>>)
    ELSE IF Accepted(rg)
    THEN Fetched(process_download_content(rg.content), rg.content,
                 <<Req("page", page), Req("link", rg)>>)
    ELSE IF rg.kind = "exception"
    THEN Failed(<<Req("page", page), Req("link", rg)>>)
    ELSE IF Accepted(rp)
    THEN Fetched(process_download_content(rp.content), rp.content,
                 <<Req("page", page), Req("link", rg), Req("post", rp)>>)
    ELSE Failed(<<Req("page", page), Req("link", rg), Req("post", rp)>>)

\* dict.get with the default None
DictGet(d, k) == IF k \in DOMAIN d THEN d[k] ELSE None

\* SubtitlesAPI.download(result), lines 1811-1837: invoked lists the
\* adapter routines called, with the handle passed
download(a, result, r1, r2) ==
    IF "title" \in DOMAIN result /\ result.title = None
    THEN [invoked |-> <<>>] @@ [NoContent EXCEPT !.raised = TRUE]
    ELSE IF result.site = "subdl" /\ Truthy(DictGet(result, "file_id"))
    THEN LET got == SubDLDownload(result.file_id, r1, r2)
         IN  [invoked |-> <<[adapter |-> "subdl", handle |-> result.file_id]>>]
             @@ [got EXCEPT !.content = IF Truthy(got.content) THEN got.content
                                        ELSE None]
    ELSE IF /\ result.site = "opensubtitles"
            /\ Truthy(DictGet(result, "file_id"))
            /\ a.opensubtitles_api_key # <<>>
    THEN LET got == download_opensubtitles(a.opensubtitles_api_key,
                                           result.file_id, r1, r2)
         IN  [invoked |-> <<[adapter |-> "opensubtitles",
                             handle |-> result.file_id]>>]
             @@ [got EXCEPT !.content = IF Truthy(got.content) THEN got.content
                                        ELSE None]
    ELSE [invoked |-> <<>>] @@ NoContent

\* SubtitlesAPI.download_titlovi(result), lines 1591-1593
download_titlovi(result, page, rg, rp) ==
    [invoked |-> <<[adapter |-> "titlovi", handle |-> result.media_id]>>]
    @@ TitloviDownload(result.media_id, page, rg, rp)

---------------------------------------------------------------------------
(* The direct searches and OpenSubtitlesAdvancedSearchScreen.doSearch *)

\* SubtitlesAPI.search_subdl_by_imdb(imdb_id, languages), lines 1668-1693
search_subdl_by_imdb(a, imdb_id, resp) ==
    IF a.subdl_api_key = <<>>
    THEN [sent |-> FALSE, adapter |-> "subdl", param |-> "none",
          value |-> <<>>, outcome |-> "no_api_key", raised |-> FALSE,
          results |-> <<>>]
    ELSE SubDLSearch(a.subdl_api.api_key, <<>>, imdb_id, None, resp)

\* SubtitlesAPI.search_subdl_by_filename(filename, languages), lines 1695-1717
search_subdl_by_filename(a, filename, resp) ==
    IF a.subdl_api_key = <<>>
    THEN [sent |-> FALSE, adapter |-> "subdl", param |-> "none",
          value |-> <<>>, outcome |-> "no_api_key", raised |-> FALSE,
          results |-> <<>>]
    ELSE SubDLSearch(a.subdl_api.api_key, <<>>, None, filename, resp)

SearchTypes == {"IMDB ID", "File Name", "Film Name"}

\* the search_method doSearch keeps from the smart search, lines 3304, 3332
KeptMethod(search_type) ==
    IF search_type = "IMDB ID" THEN "imdb" ELSE "file_name"

\* lines 3298-3307 and 3328-3335: the records of the kept method if the
\* smart search has any, else everything the smart search returned
SmartFallback(search_type, smart) ==
    LET kept == SelectSeq(smart.output,
                    LAMBDA r : r.search_method = KeptMethod(search_type))
    IN  IF kept # <<>> THEN kept ELSE smart.output

NoSearch(search_type, query) ==
    [op |-> "doSearch", search_type |-> search_type, query |-> query,
     direct |-> NoCall, smart |-> NoCall, raised |-> FALSE, output |-> <<>>]

\* doSearch of the direct types: rd answers the direct request; r1, r2, r3
\* and ro answer the requests of search_all_smart when doSearch calls it
DirectSearch(a, settings, search_type, query, direct, r1, r2, r3, ro) ==
    IF direct.results # <<>>
    THEN [op |-> "doSearch", search_type |-> search_type, query |-> query,
          direct |-> direct, smart |-> NoCall, raised |-> FALSE,
          output |-> direct.results]
    ELSE LET smart == search_all_smart(a, settings, query, settings.languages,
                                       r1, r2, r3, ro)
         IN  [op |-> "doSearch", search_type |-> search_type, query |-> query,
              direct |-> direct, smart |-> smart, raised |-> smart.raised,
              output |-> IF smart.raised THEN <<>>
                         ELSE SmartFallback(search_type, smart)]

\* OpenSubtitlesAdvancedSearchScreen.doSearch, lines 3266-3344
doSearch(a, settings, search_type, text, rd, r1, r2, r3, ro) ==
    LET query == Strip(text)
    IN  IF query = <<>> THEN NoSearch(search_type, query)
        ELSE IF search_type = "IMDB ID"
        THEN IF StartsWith(query, <<"t", "t">>)
             THEN DirectSearch(a, settings, search_type, query,
                               search_subdl_by_imdb(a, query, rd),
                               r1, r2, r3, ro)
             ELSE NoSearch(search_type, query)
        ELSE IF search_type = "File Name"
        THEN DirectSearch(a, settings, search_type, query,
                          search_subdl_by_filename(a, query, rd),
                          r1, r2, r3, ro)
        ELSE LET all == search_all(a, settings, query, settings.languages, rd, ro)
             IN  [op |-> "doSearch", search_type |-> search_type,
                  query |-> query, direct |-> NoCall, smart |-> all,
                  raised |-> all.raised, output |-> all.output]

\* what the user types into the screen
SearchTexts == {<<>>, QTitle, QImdb}

AdvancedSearch ==
    /\ phase = "idle"
    /\ \E search_type \in SearchTypes, text \in SearchTexts,
          rd \in SubDLLangResponses, r1 \in SubDLLangResponses,
          r2 \in SubDLLangResponses, r3 \in SubDLLangResponses,
          ro \in OSLangResponses :
          call' = doSearch(api, store, search_type, text, rd, r1, r2, r3, ro)
    /\ phase' = "returned"
    /\ edited' = FALSE
    /\ UNCHANGED <<store, api, arrival, agg, last_languages>>

---------------------------------------------------------------------------
(* Download inputs and the calls the screens make on one aggregator *)

HtmlPage == <<"<", "H", "T", "M", "L", ">", "<", "b", "o", "d", "y", ">", "4", "0", "4", "<", "/", "b", "o", "d", "y", ">", "<", "/", "H", "T", "M", "L", ">">> \o Pad(MinPayloadLen)

ShortHtml == <<"<", "h", "t", "m", "l", ">">>

SrtText ==
    <<"1", "\n", "0", "0", ":", "0", "0", ":", "0", "1", ",", "0", "0", "0", " ", "-", "-", ">", " ", "0", "0", ":", "0", "0", ":", "0", "2", ",", "0", "0", "0", "\n", "H", "i", "\n">>
    \o Pad(MinPayloadLen)

PlainText == <<"h", "e", "l", "l", "o">> \o Pad(MinPayloadLen)

ZipBytes == PK \o Pad(MinPayloadLen)

\* a payload: its bytes and, for a ZIP, the entries of the archive
SubText == <<"{", "0", "}", "{", "2", "5", "}", "H", "i">> \o Pad(MinPayloadLen)

VttText == <<"W", "E", "B", "V", "T", "T">> \o Pad(MinPayloadLen)

NfoText == <<"n", "o", "t", "e", "s">> \o Pad(MinPayloadLen)

\* the archives a ZIP payload can hold: the entries in archive order
Archives ==
    {<<>>,
     <<[name |-> <<"r", ".", "t", "x", "t">>, data |-> PlainText],
       [name |-> <<"A", ".", "S", "R", "T">>, data |-> SrtText]>>,
     <<[name |-> <<"c", ".", "v", "t", "t">>, data |-> VttText],
       [name |-> <<"b", ".", "s", "u", "b">>, data |-> SubText]>>,
     <<[name |-> <<"d", ".", "n", "f", "o">>, data |-> NfoText],
       [name |-> <<"b", ".", "s", "u", "b">>, data |-> SubText]>>,
     <<[name |-> <<"d", ".", "n", "f", "o">>, data |-> NfoText]>>}

\* a payload: its bytes and, for a ZIP, the entries of the archive
Payloads ==
    {[bytes |-> b, archive |-> BadZip] :
        b \in {HtmlPage, ShortHtml, SrtText, PlainText, ZipBytes}} \cup
    {[bytes |-> ZipBytes, archive |-> a] : a \in Archives}

\* the statuses other than 200 a server answers with here
ErrorStatuses == {404, 503}

DownloadResponses ==
    {[kind |-> "exception"]} \cup
    {[kind |-> "http_error", status |-> st] : st \in ErrorStatuses} \cup
    {[kind |-> "ok", content |-> c] : c \in Payloads}

\* answers to the request for the download link (OpenSubtitles) and to the
\* page of a subtitle (Titlovi): with or without a link in it
LinkResponses ==
    {[kind |-> "exception", link |-> FALSE],
     [kind |-> "http_error", status |-> 404, link |-> FALSE],
     [kind |-> "ok", link |-> FALSE],
     [kind |-> "ok", link |-> TRUE]}

\* a SubDL record without a handle
RecNoHandle == Result("subdl", <<"a">>, en, <<>>, <<>>, 5, 0)

\* the records a results screen can hand to download()
DownloadRecords == {RecD1, RecO1, RecNoHandle, TitA}

\* download() dropping the OpenSubtitles key of the instance when it fails
DownloadCallDropsKey ==
    /\ phase = "idle"
    /\ \E result \in DownloadRecords :
       \E r1 \in IF result.site = "opensubtitles" THEN LinkResponses
                 ELSE DownloadResponses,
          r2 \in DownloadResponses :
          /\ call' = [op |-> "download", result |-> result]
                     @@ download(api, result, r1, r2)
          /\ api' = IF call'.content = None
                    THEN [api EXCEPT !.opensubtitles_api_key = <<>>]
                    ELSE api
    /\ phase' = "returned"
    /\ edited' = FALSE
    /\ UNCHANGED <<store, arrival, agg, last_languages>>

DownloadCall ==
    /\ phase = "idle"
    /\ \E result \in DownloadRecords :
       \E r1 \in IF result.site = "opensubtitles" THEN LinkResponses
                 ELSE DownloadResponses,
          r2 \in DownloadResponses :
          call' = [op |-> "download", result |-> result]
                  @@ download(api, result, r1, r2)
    /\ phase' = "returned"
    /\ edited' = FALSE
    /\ UNCHANGED <<store, api, arrival, agg, last_languages>>

DownloadTitloviCall ==
    /\ phase = "idle"
    /\ \E result \in {TitA, TitB}, page \in LinkResponses,
          rg \in DownloadResponses, rp \in DownloadResponses :
          call' = [op |-> "download_titlovi", result |-> result]
                  @@ download_titlovi(result, page, rg, rp)
    /\ phase' = "returned"
    /\ edited' = FALSE
    /\ UNCHANGED <<store, api, arrival, agg, last_languages>>

---------------------------------------------------------------------------
(* The store changing behind the running aggregator *)

\* the key files and settings.json are files of CONFIG_DIR (lines
\* 1351-1353): written here by something other than the plugin's screens
\* while a screen shows the list of the call that returned
StoreEdited ==
    /\ phase = "returned"
    /\ \E subdl_key \in ApiKeys, opensubtitles_key \in ApiKeys,
          use_subdl \in BOOLEAN, use_opensubtitles \in BOOLEAN :
          /\ store' = [store EXCEPT !.subdl_key = subdl_key,
                                    !.opensubtitles_key = opensubtitles_key,
                                    !.use_subdl = use_subdl,
                                    !.use_opensubtitles = use_opensubtitles]
          /\ store' # store
    /\ edited' = TRUE
    /\ UNCHANGED <<api, phase, call, arrival, agg, last_languages>>

\* api.search_all for one query and the stored languages
ConfigSearchAll ==
    /\ phase = "idle"
    /\ \E rs \in IF RunsSubDL(api, store) THEN SubDLLangResponses ELSE {NoResponse},
          ro \in IF RunsOpenSubtitles(api, store) THEN OSLangResponses
                 ELSE {NoResponse} :
          call' = search_all(api, store, QTitle, None, rs, ro)
    /\ phase' = "returned"
    /\ edited' = FALSE
    /\ UNCHANGED <<store, api, arrival, agg, last_languages>>

\* api.search_all_smart for one query and the stored languages
ConfigSearchAllSmart ==
    /\ phase = "idle"
    /\ \E r2 \in IF RunsSubDL(api, store) THEN SubDLLangResponses ELSE {NoResponse} :
       \E r3 \in IF RunsSubDL(api, store) /\ FilmTierAsks(
                       SmartFileTier(api.subdl_api.api_key, QTitle,
                           SmartImdbTier(api.subdl_api.api_key, QTitle,
                                         extract_imdb_id(QTitle), NoResponse), r2))
                 THEN SubDLLangResponses ELSE {NoResponse},
          ro \in IF RunsOpenSubtitles(api, store) THEN OSLangResponses
                 ELSE {NoResponse} :
          call' = search_all_smart(api, store, QTitle, None, NoResponse, r2, r3, ro)
    /\ phase' = "returned"
    /\ edited' = FALSE
    /\ UNCHANGED <<store, api, arrival, agg, last_languages>>

NextConfig ==
    \/ StoreEdited
    \/ keySave
    \/ subdlKeyCallback
    \/ opensubKeyCallback
    \/ ConfigSearchAll
    \/ ConfigSearchAllSmart
    \/ Return

SpecConfig == Init /\ [][NextConfig]_vars

\* the calls of one session on one aggregator, the store left alone
NextSession ==
    \/ ConfigSearchAll
    \/ ConfigSearchAllSmart
    \/ AdvancedSearch
    \/ TitloviSearchCall
    \/ DownloadCall
    \/ DownloadTitloviCall
    \/ Return

SpecSession == InitLang /\ [][NextSession]_vars

---------------------------------------------------------------------------
(* Claims about the smart escalation of SubDLAPI.smart_search *)

Returned == phase = "returned"

SmartReturned == phase = "returned" /\ call.op = "search_all_smart"

AllReturned == phase = "returned" /\ call.op = "search_all"

\* the search() calls the SubDL adapter made during the call, in order
SubDLCalls == Filter(call.calls, LAMBDA c : c.adapter = "subdl")

OSCalls == Filter(call.calls, LAMBDA c : c.adapter = "opensubtitles")

TiersOf(calls) == [i \in 1..Len(calls) |-> calls[i].tier]

FailedOutcomes == {"exception", "http_error", "status_false"}

\* the identifier tier was queried and returned at least one result
ImdbTierAnswered ==
    \E i \in 1..Len(SubDLCalls) :
        /\ SubDLCalls[i].tier = "imdb"
        /\ SubDLCalls[i].sent
        /\ SubDLCalls[i].results # <<>>

\* C1: when an identifier is extracted from the query and the identifier
\* tier returns at least one result, smart_search makes no filename and no
\* free-text query during that call: the identifier query is its only request.
C1_ShortCircuit ==
    (SmartReturned /\ extract_imdb_id(call.query) # None /\ ImdbTierAnswered)
    => /\ TiersOf(SubDLCalls) = <<"imdb">>
       /\ \A i \in 1..Len(SubDLCalls) :
             SubDLCalls[i].param \notin {"file_name", "film_name"}

\* a smart search on an identifier query whose identifier tier answered
C1_Witness ==
    /\ SmartReturned
    /\ extract_imdb_id(call.query) # None
    /\ ImdbTierAnswered
    /\ Len(SubDLCalls[1].results) = MaxSubs

TierQueried(tier) == \E i \in 1..Len(SubDLCalls) : SubDLCalls[i].tier = tier

TierEmpty(tier) ==
    \A i \in 1..Len(SubDLCalls) :
        SubDLCalls[i].tier = tier => SubDLCalls[i].results = <<>>

\* the request a tier sends: its parameter and the value given
TierAsks(tier, param, value) ==
    \A i \in 1..Len(SubDLCalls) :
        SubDLCalls[i].tier = tier =>
            /\ SubDLCalls[i].sent
            /\ SubDLCalls[i].param = param
            /\ SubDLCalls[i].value = value

\* C2: a smart search visits the tiers in the order identifier, filename,
\* free-text, each at most once: the identifier tier is queried iff an
\* identifier is extracted from the query, the filename tier is queried with
\* the query as given iff the identifier tier was skipped or returned
\* nothing, and the free-text tier iff the filename tier was queried and
\* returned nothing.
C2_TierOrder ==
    (SmartReturned /\ RunsSubDL(api, store))
    => /\ TiersOf(SubDLCalls) \in
             {<<"imdb">>, <<"imdb", "file_name">>,
              <<"imdb", "file_name", "film_name">>,
              <<"file_name">>, <<"file_name", "film_name">>}
       /\ TierQueried("imdb") <=> extract_imdb_id(call.query) # None
       /\ TierQueried("file_name") <=> (~TierQueried("imdb") \/ TierEmpty("imdb"))
       /\ TierQueried("film_name") <=>
             (TierQueried("file_name") /\ TierEmpty("file_name"))
       /\ TierAsks("imdb", "imdb_id", extract_imdb_id(call.query))
       /\ TierAsks("file_name", "file_name", call.query)
       /\ TierAsks("film_name", "film_name", call.query)

\* a smart search that went through all three tiers
C2_Witness ==
    /\ SmartReturned
    /\ TiersOf(SubDLCalls) = <<"imdb", "file_name", "film_name">>
    /\ SubDLCalls[3].results # <<>>

\* C3: a tier whose request fails (an exception of the request, a status
\* other than 200, an error status in the body) counts as a tier with zero
\* results: its search() call raises nothing and returns [], and unless it
\* is the free-text tier the next tier is queried right after it.
C3_FailedTierIsEmptyTier ==
    (SmartReturned /\ RunsSubDL(api, store))
    => \A i \in 1..Len(SubDLCalls) :
          /\ ~SubDLCalls[i].raised
          /\ SubDLCalls[i].outcome \in FailedOutcomes =>
                /\ SubDLCalls[i].results = <<>>
                /\ SubDLCalls[i].tier = "imdb" =>
                      /\ Len(SubDLCalls) > i
                      /\ SubDLCalls[i + 1].tier = "file_name"
                /\ SubDLCalls[i].tier = "file_name" =>
                      /\ Len(SubDLCalls) > i
                      /\ SubDLCalls[i + 1].tier = "film_name"

\* the identifier tier's request raised, the filename tier got a status 500,
\* and the free-text tier was still queried and answered
C3_Witness ==
    /\ SmartReturned
    /\ Len(SubDLCalls) = 3
    /\ SubDLCalls[1].outcome = "exception"
    /\ SubDLCalls[2].outcome = "http_error"
    /\ SubDLCalls[3].results # <<>>

---------------------------------------------------------------------------
(* Claims about the aggregator calls *)

ResultsOf(calls) == IF calls = <<>> THEN <<>> ELSE calls[1].results

Range(f) == {f[i] : i \in DOMAIN f}

\* C4: in search_all_smart an enabled adapter that knows free text only
\* (OpenSubtitles, given a language list that holds a code valid for it) is
\* queried by free text exactly once in every call, whatever the SubDL tiers
\* did, and each record it contributes is tagged search_method = standard.
C4_OtherAdapterAlwaysQueried ==
    (SmartReturned /\ RunsOpenSubtitles(api, store)
                   /\ OSLanguages(call.languages) # {})
    => /\ Len(OSCalls) = 1
       /\ OSCalls[1].sent
       /\ OSCalls[1].param = "query"
       /\ OSCalls[1].value = call.query
       /\ \A i \in 1..Len(call.output) :
             call.output[i].site = "opensubtitles"
                => call.output[i].search_method = "standard"

\* C5: search_all and search_all_smart never raise, whatever the adapters'
\* outcomes: they return a list, the empty one when no adapter produced a
\* record.
C5_NeverRaises ==
    Returned
    => /\ ~call.raised
       /\ (\A i \in 1..Len(call.calls) : call.calls[i].results = <<>>)
             => call.output = <<>>

SubDLDown ==
    \/ api.subdl_api_key = <<>>
    \/ \E i \in 1..Len(SubDLCalls) : SubDLCalls[i].outcome \in FailedOutcomes

OSDown ==
    \/ api.opensubtitles_api_key = <<>>
    \/ \E i \in 1..Len(OSCalls) :
          OSCalls[i].outcome \in {"exception", "http_error", "malformed"}

\* C6: in a combined search where one key-based adapter has no API key or
\* fails, no error is raised, no request goes to an adapter without key, and
\* the call returns exactly the ranked, deduplicated, truncated records of
\* the other adapter.
C6_OneAdapterDown ==
    AllReturned
    => /\ SubDLDown =>
             /\ ~call.raised
             /\ api.subdl_api_key = <<>> => SubDLCalls = <<>>
             /\ call.output =
                   AggregateAll(ResultsOf(OSCalls), store.max_results).output
       /\ OSDown =>
             /\ ~call.raised
             /\ api.opensubtitles_api_key = <<>> => OSCalls = <<>>
             /\ call.output =
                   AggregateAll(ResultsOf(SubDLCalls), store.max_results).output

---------------------------------------------------------------------------
(* Claims about deduplication and ranking *)

AggAllDone == agg.op = "search_all" /\ ~agg.raised

AggSmartDone == agg.op = "search_all_smart" /\ ~agg.raised

SameHandle(a, b) == a.site = b.site /\ Truthy(a.file_id) /\ a.file_id = b.file_id

\* C7: when the records given to search_all hold two with the same service
\* and the same non-empty download handle, the output (not cut short by
\* max_results) holds exactly one record with that service and handle.
C7_SearchAllHandleDedup ==
    (AggAllDone /\ agg.output = agg.unique)
    => \A i, j \in 1..Len(agg.all_results) :
          (i < j /\ SameHandle(agg.all_results[i], agg.all_results[j]))
          => Cardinality({k \in 1..Len(agg.output) :
                            SameHandle(agg.output[k], agg.all_results[i])}) = 1

\* the records of arrival as search_all_smart tags and titles them, one for
\* one, before any deduplication
Presented(method) ==
    LET raw == SitePart(arrival, "subdl") \o SitePart(arrival, "opensubtitles")
    IN  [i \in 1..Len(raw) |->
            IF raw[i].site = "subdl"
            THEN Mark([raw[i] EXCEPT !.search_method = method])
            ELSE [raw[i] EXCEPT !.search_method = "standard"]]

\* the key as the claim words it: language as it is
KeyAsClaimed(r) ==
    IF Truthy(r.file_id) THEN <<r.site, "handle", r.file_id>>
    ELSE <<r.site, "title", Take(Lower(r.title), TitleCut), r.language>>

\* C8: in the deduplicated list of search_all_smart no two records share
\* (service, handle), no two records without handle share (service,
\* lower-cased title cut to 50, language), and two records that differ in
\* this key are both kept.
C8_SmartDedupKey ==
    AggSmartDone
    => /\ \A i, j \in 1..Len(agg.unique) :
             i < j => KeyAsClaimed(agg.unique[i]) # KeyAsClaimed(agg.unique[j])
       /\ LET P == Presented(agg.method)
          IN  \A i \in 1..Len(P) :
                 (\A j \in 1..(i - 1) : KeyAsClaimed(P[j]) # KeyAsClaimed(P[i]))
                 => P[i] \in Range(agg.unique)

AggKey(r) == IF agg.op = "search_all" THEN AllKey(r) ELSE SmartKey(r)

\* C9: of the records of the merged list that the deduplication takes for
\* one, the survivor is the first in merged order, with every field as that
\* record has it; each key of the merged list survives exactly once.
C9_FirstSeenWins ==
    (agg.op # "none" /\ ~agg.raised)
    => /\ \A k \in 1..Len(agg.unique) :
             LET same == {i \in 1..Len(agg.all_results) :
                            AggKey(agg.all_results[i]) = AggKey(agg.unique[k])}
             IN  /\ same # {}
                 /\ agg.unique[k] =
                       agg.all_results[CHOOSE i \in same : \A j \in same : i <= j]
       /\ \A i \in 1..Len(agg.all_results) :
             Cardinality({k \in 1..Len(agg.unique) :
                            AggKey(agg.unique[k]) = AggKey(agg.all_results[i])}) = 1

\* two records with one key and different download counts: the first is kept
C9_Witness ==
    /\ agg.op # "none"
    /\ ~agg.raised
    /\ \E i, j \in 1..Len(agg.all_results) :
          /\ i < j
          /\ AggKey(agg.all_results[i]) = AggKey(agg.all_results[j])
          /\ agg.all_results[i].downloads # agg.all_results[j].downloads
          /\ agg.all_results[i] \in Range(agg.unique)
          /\ agg.all_results[j] \notin Range(agg.unique)

Perms(n) == {p \in [1..n -> 1..n] : \A a, b \in 1..n : a # b => p[a] # p[b]}

Permuted(s, p) == [i \in 1..Len(s) |-> s[p[i]]]

AggregateOf(op, all_results, max_results) ==
    IF op = "search_all" THEN AggregateAll(all_results, max_results)
    ELSE AggregateSmart(all_results, max_results)

\* C10: the aggregation (deduplicate, rank, truncate) of search_all and of
\* search_all_smart returns the same list, in the same order, for every
\* permutation of the arrival order of the merged records.
C10_PermutationInvariant ==
    (agg.op # "none" /\ ~agg.raised)
    => \A p \in Perms(Len(agg.all_results)) :
          AggregateOf(agg.op, Permuted(agg.all_results, p), agg.max_results).output
             = agg.output

---------------------------------------------------------------------------
(* Claims about ranking and truncation *)

\* service priority of the combined mode: the unlimited token service
\* before the rate-limited key service
ServiceTier(r) ==
    IF r.site = "subdl" THEN 0 ELSE IF r.site = "opensubtitles" THEN 1 ELSE 2

\* a is not greater than b under (service tier, -downloads, -rating)
CombinedNotGreater(a, b) ==
    \/ ServiceTier(a) < ServiceTier(b)
    \/ /\ ServiceTier(a) = ServiceTier(b)
       /\ \/ a.downloads > b.downloads
          \/ a.downloads = b.downloads /\ a.rating >= b.rating

\* C11: in the output of search_all every record is not greater than its
\* successor under the key (service priority, descending downloads,
\* descending rating).
C11_SearchAllSorted ==
    AggAllDone
    => \A k \in 1..(Len(agg.output) - 1) :
          CombinedNotGreater(agg.output[k], agg.output[k + 1])

\* two records of one service and one download count arrive with the lower
\* rating first and leave with the higher rating first
C11_Witness ==
    /\ AggAllDone
    /\ \E i, j \in 1..Len(agg.all_results), k \in 1..(Len(agg.output) - 1) :
          /\ i < j
          /\ agg.output[k] = agg.all_results[j]
          /\ agg.output[k + 1] = agg.all_results[i]
          /\ agg.all_results[i].site = agg.all_results[j].site
          /\ agg.all_results[i].downloads = agg.all_results[j].downloads
          /\ agg.all_results[i].rating < agg.all_results[j].rating

\* tier quality rank of the smart mode
TierRank(r) ==
    IF r.site = "subdl"
    THEN CASE r.search_method = "imdb" -> 0
           [] r.search_method = "file_name" -> 1
           [] r.search_method = "film_name" -> 2
           [] OTHER -> 3
    ELSE 4

\* C12: the output of search_all_smart is sorted by tier quality rank and,
\* among records of equal rank, by descending download count.
C12_SmartSorted ==
    AggSmartDone
    => \A k \in 1..(Len(agg.output) - 1) :
          \/ TierRank(agg.output[k]) < TierRank(agg.output[k + 1])
          \/ /\ TierRank(agg.output[k]) = TierRank(agg.output[k + 1])
             /\ agg.output[k].downloads >= agg.output[k + 1].downloads

\* C13: the list a call of search_all or search_all_smart returns has at
\* most max_results records and is the prefix of that length of the ranked
\* deduplicated list.
C13_Truncated ==
    (Returned /\ ~call.raised)
    => /\ Len(call.output) <= store.max_results
       /\ Len(call.output) <= Len(call.unique)
       /\ (Len(call.output) < store.max_results
              => Len(call.output) = Len(call.unique))
       /\ \A k \in 1..Len(call.output) : call.output[k] = call.unique[k]

\* a smart call whose ranked list is longer than the cap
C13_Witness ==
    /\ SmartReturned
    /\ ~call.raised
    /\ Len(call.unique) > store.max_results
    /\ Len(call.output) = store.max_results

---------------------------------------------------------------------------
(* Claims about the languages of a search *)

AdapterReturned ==
    /\ phase = "returned"
    /\ call.op \in {"SubDLAPI.search", "search_opensubtitles", "TitloviAPI.search"}

GivenLanguages == IF call.languages = None THEN <<>> ELSE call.languages

Normal(lang) == Strip(Lower(lang))

\* the codes each adapter takes for a language of its own
ValidFor(adapter, lang) ==
    CASE adapter = "subdl" ->
            \/ Normal(lang) \in DOMAIN SubDLLangMap
            \/ \E i \in 1..Len(SubDLAllLanguages) :
                  SubDLAllLanguages[i] = Upper(Normal(lang))
      [] adapter = "titlovi" -> Normal(lang) \in DOMAIN TitloviLangMap
      [] OTHER ->
            \/ Normal(lang) \in DOMAIN OSLangMap
            \/ Len(Normal(lang)) = 2

NamesAll(lang) == Normal(lang) = AllWord

\* C14: an adapter given a language set that holds no language valid for it
\* (the empty set included) returns the empty list and sends no search
\* request.
C14_FailsClosed ==
    (/\ AdapterReturned
     /\ \A i \in 1..Len(GivenLanguages) :
           /\ ~ValidFor(call.adapter, GivenLanguages[i])
           /\ ~NamesAll(GivenLanguages[i]))
    => (~call.sent /\ call.results = <<>>)

\* C15: an adapter given a language set that holds "all", in any letter
\* case, asks for its full list of languages, not for a code made of the
\* letters of "all".
C15_AllExpands ==
    (/\ AdapterReturned
     /\ call.outcome # "no_api_key"
     /\ \E i \in 1..Len(GivenLanguages) : NamesAll(GivenLanguages[i]))
    => CASE call.adapter = "subdl" -> call.langs = SubDLAllLanguages
         [] call.adapter = "titlovi" -> call.langs = TitloviSupported
         [] OTHER -> /\ call.sent
                     /\ \A c \in call.langs : ~StartsWith(AllWord, c)

---------------------------------------------------------------------------
(* Claims about configuration and state across calls *)

\* the store as it is now lets the service run
Wanted(site) ==
    IF site = "subdl"
    THEN /\ store.use_subdl
         /\ store.subdl_key # <<>>
         /\ store.preferred_service \in {"both", "subdl"}
    ELSE /\ store.use_opensubtitles
         /\ store.opensubtitles_key # <<>>
         /\ store.preferred_service \in {"both", "opensubtitles"}

Queried(c, site) ==
    \E i \in 1..Len(c.calls) : c.calls[i].adapter = site /\ c.calls[i].sent

\* C16: when a key or an enabled flag of the store has changed since the
\* last call returned, and nothing else was done to the aggregator, the next
\* search_all / search_all_smart call (given languages valid for every
\* service) queries exactly the services the store now enables with a key.
C16_ActsOnNewValues ==
    [][(/\ phase = "idle"
        /\ phase' = "returned"
        /\ edited
        /\ OSLanguages(store.languages) # {})
       => \A site \in {"subdl", "opensubtitles"} :
             Queried(call', site) <=> Wanted(site)]_vars


\* the parameter a direct search type asks SubDL with
ChosenParam == IF call.search_type = "IMDB ID" THEN "imdb_id" ELSE "file_name"

\* the requests the search sent after the direct one
LaterRequests ==
    IF call.smart = NoCall THEN <<>>
    ELSE SelectSeq(call.smart.calls, LAMBDA c : c.sent)

\* C18: a direct search by identifier or by filename sends requests of the
\* chosen method only, and returns the empty list when the chosen method
\* found nothing: no smart search, no other tier is run in its place.
C18_NoFallback ==
    (/\ phase = "returned"
     /\ call.op = "doSearch"
     /\ call.search_type \in {"IMDB ID", "File Name"}
     /\ call.direct # NoCall)
    => /\ LaterRequests = <<>>
       /\ call.direct.sent => call.direct.param = ChosenParam
       /\ call.direct.results = <<>> => call.output = <<>>

---------------------------------------------------------------------------
(* Claims about the aggregator's state between calls and about downloads *)

\* a step in which the aggregator serves a search or a download
CallStep == phase = "idle" /\ phase' = "returned"

HandleOf(result) ==
    IF result.site = "titlovi" THEN result.media_id ELSE result.file_id

\* C19: download() given a record of one of the three services, with a
\* handle and a configured key, invokes the download routine of that
\* service with the record's handle and no other routine; it gives content
\* only if that routine fetched a payload.
C19_DispatchByService ==
    (/\ phase = "returned"
     /\ call.op = "download"
     /\ call.result.site \in {"subdl", "opensubtitles", "titlovi"}
     /\ Truthy(HandleOf(call.result))
     /\ call.result.site = "opensubtitles" => api.opensubtitles_api_key # <<>>)
    => /\ call.invoked = <<[adapter |-> call.result.site,
                            handle |-> HandleOf(call.result)]>>
       /\ call.content # None => call.payload # None

\* neither a ZIP archive nor one of the subtitle formats
NoSignature(bytes) == ~StartsWith(bytes, PK) /\ ~is_subtitle_content(bytes)

\* C20: a fetched payload with no subtitle signature and with <html or
\* <!doctype in its first 1000 bytes is never returned as content by a
\* download routine: the download gives None.
C20_HtmlRejected ==
    (/\ phase = "returned"
     /\ call.op \in {"download", "download_titlovi"}
     /\ call.payload # None
     /\ NoSignature(call.payload)
     /\ LooksLikeHtml(call.payload))
    => call.content = None

\* a download call that fetched a payload starting with the ZIP magic
ZipFetched ==
    /\ phase = "returned"
    /\ call.op \in {"download", "download_titlovi"}
    /\ call.payload # None
    /\ StartsWith(call.payload, PK)

\* the place of a name's extension in the priority order, 0 if not listed
PriorityOf(name) ==
    LET es == {e \in 1..Len(ExtensionsOrder) :
                  EndsWith(Lower(name), ExtensionsOrder[e])}
    IN  IF es = {} THEN 0 ELSE CHOOSE e \in es : \A f \in es : e <= f

\* the entry the priority order selects from a non-empty archive
PriorityEntry(archive) ==
    LET listed == {i \in 1..Len(archive) : PriorityOf(archive[i].name) > 0}
        best == CHOOSE i \in listed : \A j \in listed :
                   \/ PriorityOf(archive[i].name) < PriorityOf(archive[j].name)
                   \/ /\ PriorityOf(archive[i].name) = PriorityOf(archive[j].name)
                      /\ i <= j
    IN  IF listed = {} THEN archive[1] ELSE archive[best]

\* C21: from a ZIP payload every downloader extracts the first entry of the
\* highest-priority extension present (.srt > .sub > .txt > .ass > .ssa >
\* .vtt) whatever the order of the archive, the first entry when no
\* extension is listed, and gives the raw bytes, raising nothing, when the
\* archive cannot be opened.
C21_ZipPriority ==
    ZipFetched
    => /\ ~call.raised
       /\ call.archive = BadZip => call.content = call.payload
       /\ (call.archive # BadZip /\ call.archive # <<>>)
          => call.content = PriorityEntry(call.archive).data

\* download() handed a SubDL record to SubDLAPI.download
SubDLDownloadDone ==
    /\ phase = "returned"
    /\ call.op = "download"
    /\ call.invoked # <<>>
    /\ call.invoked[1].adapter = "subdl"

\* C22: the SubDL download asks the primary URL first; it asks the
\* alternate URL, once, exactly when the primary answered with a status
\* other than 200; it fails exactly when its last request raised or got a
\* status other than 200.
C22_PrimaryThenAlternate ==
    SubDLDownloadDone
    => /\ Len(call.requests) \in {1, 2}
       /\ call.requests[1].to = "primary"
       /\ Len(call.requests) = 2 <=> call.requests[1].kind = "http_error"
       /\ Len(call.requests) = 2 => call.requests[2].to = "alternate"
       /\ call.content = None <=> call.requests[Len(call.requests)].kind # "ok"

\* the alternate URL delivered after the primary answered with an error
C22_Witness ==
    /\ SubDLDownloadDone
    /\ Len(call.requests) = 2
    /\ call.requests[2].kind = "ok"
    /\ call.content # None

\* download_titlovi() that read the page of the subtitle, no request of it
\* raising
TitloviPageRead ==
    /\ phase = "returned"
    /\ call.op = "download_titlovi"
    /\ call.requests # <<>>
    /\ call.requests[1].kind = "ok"
    /\ \A i \in 1..Len(call.requests) : call.requests[i].kind # "exception"

\* C23: the Titlovi download tries the link found on the page, the page's
\* URL with ?download=1 when no link was found, and then the POST to the
\* download endpoint; it fails only after the POST was tried.
C23_StrategyChain ==
    (TitloviPageRead /\ call.content = None)
    => \E i \in 1..Len(call.requests) : call.requests[i].to = "post"

---------------------------------------------------------------------------
(* Claims about the Titlovi search *)

ScrapeDone ==
    /\ phase = "returned"
    /\ call.op = "TitloviAPI.search"
    /\ call.outcome = "ok"

IdsOf(records) == [i \in 1..Len(records) |-> records[i].media_id]

Distinct(s) == \A i, j \in 1..Len(s) : i # j => s[i] # s[j]

\* C24: of a page of results the search processes at most the first 10
\* distinct ids, requests the detail page of the first 5 of them only, and
\* returns at most 10 records, no two of one id.
C24_ScrapeCaps ==
    ScrapeDone
    => /\ Len(call.candidates) <= 10
       /\ Distinct(call.candidates)
       /\ Len(call.detail_requests) <= 5
       /\ call.detail_requests = Take(call.candidates, Len(call.detail_requests))
       /\ Len(call.results) <= 10
       /\ Distinct(IdsOf(call.results))

\* a page with more distinct ids than the search processes, all ten kept
C24_Witness ==
    /\ ScrapeDone
    /\ Len(call.candidates) = 10
    /\ Len(call.detail_requests) = 5
    /\ Len(call.results) = 10

\* C25: every processed candidate whose details were not fetched or could
\* not be fetched is in the returned list as a placeholder record, whatever
\* languages were asked for.
C25_PlaceholdersKept ==
    ScrapeDone
    => \A i \in 1..Len(call.candidates) :
          call.parsed[i].search_method = "simple"
          => \E j \in 1..Len(call.results) : call.results[j] = call.parsed[i]

---------------------------------------------------------------------------
(* Claims about retries *)

\* status_forcelist of the Retry the sessions are mounted with, line 66
TransientStatuses == {429, 500, 502, 503, 504}

---------------------------------------------------------------------------
(* Claims about the identifier extraction *)

Extracted == phase = "returned" /\ call.op = "extract_imdb_id"

\* tt, in either case, and n digits from position i of q
TtDigitsAt(q, i, n) ==
    /\ i + n + 1 <= Len(q)
    /\ SubSeq(q, i, i + 1) \in {<<a, b>> : a \in {"t", "T"}, b \in {"t", "T"}}
    /\ \A k \in (i + 2)..(i + n + 1) : IsDigit(q[k])

Occurrences(q) == {i \in 1..Len(q) : TtDigitsAt(q, i, 7)}

FirstOccurrence(q) == CHOOSE i \in Occurrences(q) : \A j \in Occurrences(q) : i <= j

\* C27: extract_imdb_id returns, lower-cased, the first occurrence in the
\* query of tt followed by 7 or 8 digits (all 8 when there are 8), with or
\* without an imdb prefix before it, and None exactly when the query holds
\* no such occurrence.
C27_ExtractIdentifier ==
    Extracted
    => /\ call.imdb_id = None <=> Occurrences(call.query) = {}
       /\ Occurrences(call.query) # {} =>
             LET i == FirstOccurrence(call.query)
                 n == IF TtDigitsAt(call.query, i, 8) THEN 8 ELSE 7
             IN  call.imdb_id = Lower(SubSeq(call.query, i, i + n + 1))
       /\ call.query = <<"i", "m", "d", "b", ":", "t", "t", "1", "3", "7", "5", "6", "6", "6">> => call.imdb_id = QImdb
       /\ call.query = QMatrix => call.imdb_id = None

\* an upper-case identifier after a prefix, with a second identifier later
C27_Witness ==
    /\ Extracted
    /\ call.query = <<"I", "M", "D", "B", ":", " ", "T", "T", "1", "3", "7", "5", "6", "6", "6", "7", " ", "t", "t", "7", "6", "5", "4", "3", "2", "1">>
    /\ call.imdb_id = <<"t", "t", "1", "3", "7", "5", "6", "6", "6", "7">>

---------------------------------------------------------------------------
(* Claims about the tags and the requests of the smart search *)

\* the records smart_search returned to search_all_smart
SmartSubDLRecords == SelectSeq(call.all_results, LAMBDA r : r.site = "subdl")

\* the tier requests that returned a non-empty list
AnsweringTiers == {i \in 1..Len(SubDLCalls) : SubDLCalls[i].results # <<>>}

\* C28: the records one smart_search call returns all carry the tag of the
\* first tier (identifier, filename, free text) whose request returned a
\* non-empty list, and the returned list is empty exactly when every tier
\* that was tried returned an empty list.
C28_OneTierTag ==
    (SmartReturned /\ ~call.raised)
    => /\ SmartSubDLRecords = <<>> <=> AnsweringTiers = {}
       /\ \A i \in AnsweringTiers :
             (\A j \in AnsweringTiers : i <= j)
             => \A k \in 1..Len(SmartSubDLRecords) :
                   SmartSubDLRecords[k].search_method = SubDLCalls[i].tier

\* the identifier tier found nothing and the filename tier answered
C28_Witness ==
    /\ SmartReturned
    /\ ~call.raised
    /\ Len(SubDLCalls) = 2
    /\ SubDLCalls[1].tier = "imdb"
    /\ SubDLCalls[1].results = <<>>
    /\ SmartSubDLRecords # <<>>
    /\ \A k \in 1..Len(SmartSubDLRecords) :
          SmartSubDLRecords[k].search_method = "file_name"

\* a returned call of one of the two aggregated searches
AggregatedReturned ==
    /\ phase = "returned"
    /\ call.op \in {"search_all", "search_all_smart"}

\* the configuration allows the search to query the service
MayQuery(site) ==
    /\ IF site = "subdl" THEN store.use_subdl ELSE store.use_opensubtitles
    /\ (IF site = "subdl" THEN api.subdl_api_key
        ELSE api.opensubtitles_api_key) # <<>>
    /\ store.preferred_service \in {"both", site}

RequestsTo(site) == SelectSeq(call.calls, LAMBDA c : c.adapter = site /\ c.sent)

\* C29: search_all and search_all_smart send a search request to a service
\* only when its flag is on, its key is not empty and the preferred
\* service is "both" or that service; otherwise the call sends it nothing
\* and returns no record of that service.
C29_OnlyConfiguredServices ==
    AggregatedReturned
    => \A site \in {"subdl", "opensubtitles"} :
          ~MayQuery(site)
          => /\ RequestsTo(site) = <<>>
             /\ \A i \in 1..Len(call.output) : call.output[i].site # site

\* SubDL has its flag and its key but the other service is preferred, and
\* that one is queried and returns records
C29_Witness ==
    /\ AggregatedReturned
    /\ store.use_subdl
    /\ api.subdl_api_key # <<>>
    /\ store.preferred_service = "opensubtitles"
    /\ RequestsTo("opensubtitles") # <<>>
    /\ call.output # <<>>

\* the requests the call sent upstream, in the order it sent them
SentRequests == SelectSeq(call.calls, LAMBDA c : c.sent)

\* the place of a tier in the order smart_search tries them
TierPlace(tier) ==
    CASE tier = "imdb" -> 1
      [] tier = "file_name" -> 2
      [] tier = "film_name" -> 3
      [] OTHER -> 4

\* C30: a call of search_all_smart returns after at most three SubDL search
\* requests, the tiers in the order identifier, filename, free text and
\* each at most once, followed by at most one OpenSubtitles search
\* request; no SubDL request comes after the OpenSubtitles one.
C30_BoundedQueries ==
    SmartReturned
    => /\ Len(RequestsTo("subdl")) <= 3
       /\ Len(RequestsTo("opensubtitles")) <= 1
       /\ \A i \in 1..Len(SentRequests) : \A j \in (i + 1)..Len(SentRequests) :
             /\ SentRequests[i].adapter = "subdl"
             /\ SentRequests[j].adapter = "subdl"
                => TierPlace(SentRequests[i].tier) < TierPlace(SentRequests[j].tier)

\* all three tiers were queried, each found nothing, and the OpenSubtitles
\* request followed
C30_Witness ==
    /\ SmartReturned
    /\ Len(SentRequests) = 4
    /\ TiersOf(SentRequests) = <<"imdb", "file_name", "film_name", "standard">>
    /\ SentRequests[4].adapter = "opensubtitles"

=========================================================================
